---- MODULE Spec2Model ----
(***************************************************************************)
(* Verification model of the Bullet Designer engine (FreeCAD-addons):      *)
(*   - generate_bullet_profile_points   (Utils/GeometryHelpers.py)         *)
(*   - calculate_bullet_dimensions_from_weight and the ballistic metrics   *)
(*     (Utils/Calculations.py)                                             *)
(*   - integrate_trajectory_rk4         (Commands/TrajectoryCalculator.py) *)
(*                                                                         *)
(* The code works on floats; the model works on fixed-point integers.      *)
(* Lengths of the geometry and of the dimension solver are counted in      *)
(* units of 1/40 mm (0.025 mm), so that every literal of the code that     *)
(* takes part in a comparison (0.1 mm, 0.2 mm) is a whole number of units. *)
(* Every intermediate value stays below 2^31.                              *)
(***************************************************************************)
EXTENDS Integers, Sequences, FiniteSets, TLC

VARIABLES
    pc,       \* position of the running call
    in,       \* the arguments of the running call
    loc,      \* the locals of the running call
    points,   \* the list being built: `points`, `trajectory_points`
    out       \* the value returned (or the exception raised) by the call

vars == <<pc, in, loc, points, out>>

----------------------------------------------------------------------------
(* Arithmetic helpers                                                      *)

Abs(x) == IF x < 0 THEN -x ELSE x

Max(a, b) == IF a >= b THEN a ELSE b

Min(a, b) == IF a <= b THEN a ELSE b

\* x * a / b without forming x * a (which may exceed 2^31); a, b > 0, x >= 0.
MulDiv(x, a, b) == (x \div b) * a + ((x % b) * a) \div b

\* The same for any signs (b # 0), rounding toward zero.
SMulDiv(x, a, b) ==
    LET neg == ((x < 0) # (a < 0)) # (b < 0)
        mag == MulDiv(Abs(x), Abs(a), Abs(b))
    IN  IF neg THEN -mag ELSE mag

\* the largest k in 0..35 with (base + k * step)^2 <= n
ISqrtIter(n, base, step) ==
    CHOOSE k \in 0..35 :
        /\ base + k * step <= 46340
        /\ (base + k * step) * (base + k * step) <= n
        /\ \/ k = 35
           \/ base + (k + 1) * step > 46340
           \/ (base + (k + 1) * step) * (base + (k + 1) * step) > n

\* floor(sqrt(n)) for 0 <= n < 2^31, digit by digit in base 36
ISqrt(n) ==
    IF n <= 0 THEN 0
    ELSE LET a == 1296 * ISqrtIter(n, 0, 1296)
             b == a + 36 * ISqrtIter(n, a, 36)
         IN  b + ISqrtIter(n, b, 1)

Last(s) == s[Len(s)]

----------------------------------------------------------------------------
(* generate_bullet_profile_points                                          *)
(* Lengths in units of 1/40 mm; a point is <<Z, R>>.                       *)

\* 0.2 mm: the chamfer at each end of a band
ChamferLen == 8

\* 0.1 mm: the smallest body length, spacing, and body-to-band offset
MinStep == 4

\* the task panel permits 0..6 bands
NumBandsMax == 6

\* at least 20 segments along the ogive
MinOgivePoints == 20

\* tan(boat_tail_angle_deg) * 10000, for the angles the task panel permits
TanTable ==
    <<175, 349, 524, 699, 875, 1051, 1228, 1405, 1584, 1763,
      1944, 2126, 2309, 2493, 2679, 2867, 3057, 3249, 3443, 3640>>

TanE4(deg) ==
    IF deg = 0 THEN 0 ELSE IF deg < 0 THEN -TanTable[-deg] ELSE TanTable[deg]

\* t ** 1.2 * 10000 at t = 0, 0.05, ..., 1
Pow12Table ==
    <<0, 275, 631, 1026, 1450, 1895, 2358, 2837, 3330, 3836, 4353,
      4880, 5417, 5963, 6518, 7081, 7651, 8228, 8812, 9403, 10000>>

\* sin(pi/2 * s) * 10000 at s = 0, 0.05, ..., 1
SinTable ==
    <<0, 785, 1564, 2334, 3090, 3827, 4540, 5225, 5878, 6494, 7071,
      7604, 8090, 8526, 8910, 9239, 9511, 9724, 9877, 9969, 10000>>

\* tab at tn/td (0 <= tn <= td), linear between the 21 knots
Interp(tab, tn, td) ==
    LET k    == (tn * 20) \div td
        frac == (tn * 20) % td
    IN  IF k >= 20 THEN tab[21]
        ELSE tab[k + 1] + ((tab[k + 2] - tab[k + 1]) * frac) \div td

\* generate_tangent_ogive_radius at t = tn/td
TangentOgiveRadius(tn, td, base_radius, tip_radius, length) ==
    IF length <= 0 \/ base_radius <= tip_radius
    THEN base_radius - ((base_radius - tip_radius) * tn) \div td
    ELSE LET delta_r == base_radius - tip_radius
         IN  IF tn <= 0 THEN base_radius
             ELSE IF tn >= td THEN tip_radius
             ELSE LET root   == ISqrt((td * td - tn * tn) * 10000)
                      radius == tip_radius + (delta_r * root) \div (td * 100)
                  IN  Max(tip_radius, Min(base_radius, radius))

\* generate_secant_ogive_radius at t = tn/td
SecantOgiveRadius(tn, td, base_radius, tip_radius, length) ==
    base_radius - ((base_radius - tip_radius) * Interp(Pow12Table, tn, td)) \div 10000

\* an elliptical curve run from the tip angle to the base angle
EllipticalOgiveRadiusRising(tn, td, base_radius, tip_radius, length) ==
    tip_radius + ((base_radius - tip_radius) * Interp(SinTable, tn, td)) \div 10000

\* generate_elliptical_ogive_radius at t = tn/td
EllipticalOgiveRadius(tn, td, base_radius, tip_radius, length) ==
    tip_radius + ((base_radius - tip_radius) * Interp(SinTable, td - tn, td)) \div 10000

OgiveRadius(ogive_type, tn, td, base_radius, tip_radius, length) ==
    IF ogive_type = "Tangent"
    THEN TangentOgiveRadius(tn, td, base_radius, tip_radius, length)
    ELSE IF ogive_type = "Secant"
    THEN SecantOgiveRadius(tn, td, base_radius, tip_radius, length)
    ELSE EllipticalOgiveRadius(tn, td, base_radius, tip_radius, length)

\* radius_groove = diameter_mm / 2.0
RadiusGroove(p) == p.diameter \div 2

\* body_radius: land radius (forced below groove) if land riding, else groove
BodyRadius(p) ==
    IF p.land_riding
    THEN IF p.land_diameter \div 2 >= RadiusGroove(p)
         THEN (RadiusGroove(p) * 98) \div 100
         ELSE p.land_diameter \div 2
    ELSE RadiusGroove(p)

\* meplat_radius after the meplat validation
MeplatRadius(p) ==
    IF p.meplat_diameter \div 2 >= BodyRadius(p)
    THEN BodyRadius(p) \div 2
    ELSE p.meplat_diameter \div 2

\* ogive_length = (ogive_caliber_ratio * diameter_mm) / 2.0, ratio in tenths
OgiveLength(p) == (p.ogive_ratio10 * p.diameter) \div 20

HasBoatTail(p) == p.base_type = "BoatTail" /\ p.boat_tail_length > 0

\* base_radius of the boat tail
BoatTailBaseRadius(p) ==
    Max(RadiusGroove(p) - (p.boat_tail_length * TanE4(p.boat_tail_angle)) \div 10000,
        (RadiusGroove(p) * 3) \div 10)

\* the points of the base section, after the start point on the axis
BasePoints(p) ==
    IF HasBoatTail(p)
    THEN << <<0, BoatTailBaseRadius(p)>>, <<p.boat_tail_length, RadiusGroove(p)>> >>
    ELSE << <<0, RadiusGroove(p)>> >>

\* z_pos after the base section
BaseEndZ(p) == IF HasBoatTail(p) THEN p.boat_tail_length ELSE 0

\* body_length, with its floor of 0.1 mm
BodyLength(p) ==
    LET raw == p.length - BaseEndZ(p) - OgiveLength(p)
    IN  IF raw <= 0 THEN Max(MinStep, raw) ELSE raw

BodyEndZ(p) == BaseEndZ(p) + BodyLength(p)

\* total_band_space as requested
TotalBandSpace(p) ==
    p.num_bands * p.band_length
    + (IF p.num_bands > 1 THEN (p.num_bands - 1) * p.band_spacing ELSE 0)

\* band_spacing_mm left as requested
SpacingRequested(p) == p.band_spacing

\* band_spacing_mm after the scale-to-fit step
SpacingUsed(p) ==
    IF p.num_bands > 1 /\ TotalBandSpace(p) > BodyLength(p)
    THEN Max(MinStep, (BodyLength(p) - p.num_bands * p.band_length) \div (p.num_bands - 1))
    ELSE p.band_spacing

\* band_start_z of band i (0-based) given current_z
BandStartZ(i, current_z, spacing) ==
    IF i = 0 THEN current_z ELSE current_z + spacing

\* band_end_z
BandEndZ(band_start_z, p) == Min(band_start_z + p.band_length, BodyEndZ(p))

\* the points one iteration of the band loop appends
BandPoints(p, band_start_z, current_z) ==
    LET body_end_z   == BodyEndZ(p)
        start_expand == band_start_z + ChamferLen
        band_end_z   == BandEndZ(band_start_z, p)
        end_expand   == band_end_z - ChamferLen
        band_radius  == IF p.land_riding THEN RadiusGroove(p)
                        ELSE (RadiusGroove(p) * 101) \div 100
        p1 == IF p.land_riding /\ band_start_z > current_z + MinStep
              THEN << <<band_start_z, BodyRadius(p)>> >> ELSE << >>
        p2 == IF start_expand < body_end_z
              THEN << <<start_expand, band_radius>> >> ELSE << >>
        p3 == IF end_expand > start_expand
              THEN << <<end_expand, band_radius>> >> ELSE << >>
        p4 == IF band_end_z < body_end_z
              THEN << <<band_end_z, BodyRadius(p)>> >> ELSE << >>
    IN  p1 \o p2 \o p3 \o p4

\* num_ogive_points = max(20, int(actual_ogive_length))
NumOgivePoints(actual_len) ==
    Max(MinOgivePoints, IF actual_len >= 0 THEN actual_len \div 40 ELSE 0)

\* t_values as numerators over 2n, with 0.5 forced into the list when absent.
\* For odd n the two middle values are equally far from 0.5; `second` tells
\* which of them float rounding makes min() pick.
TValues(n, second) ==
    [i \in 1..(n + 1) |->
        IF n % 2 = 1 /\ i - 1 = (IF second THEN (n + 1) \div 2 ELSE (n - 1) \div 2)
        THEN n
        ELSE 2 * (i - 1)]

\* the ogive points of BulletDesigner/Utils/GeometryHelpers.py
OgivePointsSampled(p, second) ==
    LET start == BodyEndZ(p)
        L     == p.length - start
        n     == NumOgivePoints(L)
        tv    == TValues(n, second)
    IN  [i \in 1..(n + 1) |->
            << start + SMulDiv(L, tv[i], 2 * n),
               OgiveRadius(p.ogive_type, tv[i], 2 * n, BodyRadius(p), MeplatRadius(p), L) >>]

\* the ogive points of Utils/GeometryHelpers.py: start, rim (t = 0.5), end
OgivePointsArc(p) ==
    LET start == BodyEndZ(p)
        L     == p.length - start
    IN  << <<start, BodyRadius(p)>>,
           <<start + SMulDiv(L, 1, 2),
             OgiveRadius(p.ogive_type, 1, 2, BodyRadius(p), MeplatRadius(p), L)>>,
           <<p.length, MeplatRadius(p)>> >>

\* the tip section of BulletDesigner/Utils/GeometryHelpers.py
\* (abs(z - length_mm) > 0.001 mm is z # length on the 1/40 mm grid)
TipPointsSampled(p, pts) ==
    IF MeplatRadius(p) > 0
    THEN (IF Abs(Last(pts)[1] - p.length) * 25 > 1
          THEN << <<p.length, MeplatRadius(p)>> >> ELSE << >>)
         \o << <<p.length, 0>> >>
    ELSE << <<p.length, 0>> >>

\* the tip section of Utils/GeometryHelpers.py
TipPointsArc(p, pts) ==
    IF MeplatRadius(p) > 0 THEN << <<p.length, 0>> >> ELSE << >>

\* a tip that stops at the meplat edge, without the closing point on the axis
TipPointsOpen(p, pts) ==
    IF MeplatRadius(p) > 0 THEN << <<p.length, MeplatRadius(p)>> >>
                           ELSE << <<p.length, 0>> >>

TipPoints(p, pts) ==
    IF p.variant = "BulletDesigner" THEN TipPointsSampled(p, pts) ELSE TipPointsArc(p, pts)

\* the point(s) closing the body section (after the band loop, or with no bands)
BodyEndPoints(p, pts, current_z) ==
    IF p.num_bands > 0
    THEN IF current_z < BodyEndZ(p)
         THEN << <<BodyEndZ(p), BodyRadius(p)>> >> ELSE << >>
    ELSE IF p.land_riding
    THEN << <<BodyEndZ(p), BodyRadius(p)>> >>
    ELSE (IF ~HasBoatTail(p) /\ (Len(pts) = 0 \/ Last(pts)[1] # BaseEndZ(p))
          THEN << <<BaseEndZ(p), RadiusGroove(p)>> >> ELSE << >>)
         \o << <<BodyEndZ(p), RadiusGroove(p)>> >>

\* The parameters of a DesignParameters the data model calls valid.
ValidDesign(p) ==
    /\ 0 < p.land_diameter /\ p.land_diameter < p.diameter
    /\ 0 <= p.meplat_diameter /\ p.meplat_diameter < p.land_diameter
    /\ p.length > 0
    /\ 0 <= p.num_bands /\ p.num_bands <= NumBandsMax
    /\ p.band_length > 0
    /\ 0 <= p.boat_tail_length /\ p.boat_tail_length * 10 <= 3 * p.length

\* The calls explored: 6.7 mm groove / 6.5 mm land; lengths 0.05, 1, 15 and 32 mm;
\* band lengths 0.1 (the smallest the task panel permits), 0.3 and 2.25 mm.
ProfileBases == { <<"Flat", 0>>, <<"Flat", 160>>, <<"BoatTail", 0>>, <<"BoatTail", 160>> }

ProfileInputs ==
    { [ diameter |-> 268, land_diameter |-> 260, length |-> len,
        ogive_type |-> ot, ogive_ratio10 |-> 30, meplat_diameter |-> mp,
        num_bands |-> nb, band_length |-> bl, band_spacing |-> bs,
        base_type |-> b[1], boat_tail_length |-> b[2], boat_tail_angle |-> 9,
        land_riding |-> lr, variant |-> v ] :
        len \in {2, 40, 600, 1280}, ot \in {"Tangent", "Secant", "Elliptical"},
        mp \in {0, 60, 280}, nb \in 0..NumBandsMax, bl \in {4, 12, 90},
        bs \in {0, 120}, b \in ProfileBases, lr \in BOOLEAN,
        v \in {"BulletDesigner", "Utils"} }

NoLoc == [current_z |-> 0, i |-> 0, spacing |-> 0]

ProfileInit ==
    /\ pc = "start"
    /\ in \in ProfileInputs
    /\ loc = NoLoc
    /\ points = << >>
    /\ out = "none"

\* points = []; ...; points.append((z_pos, 0.0))
StartProfile ==
    /\ pc = "start"
    /\ points' = << <<0, 0>> >>
    /\ pc' = "base"
    /\ UNCHANGED <<in, loc, out>>

\* the base section: boat tail frustum or flat base
BaseSection ==
    /\ pc = "base"
    /\ points' = points \o BasePoints(in)
    /\ pc' = "body"
    /\ UNCHANGED <<in, loc, out>>

\* body length, start of the body, band spacing scaled to fit
BodySection ==
    /\ pc = "body"
    /\ points' = IF in.land_riding
                 THEN Append(points, <<BaseEndZ(in), BodyRadius(in)>>)
                 ELSE points
    /\ loc' = [current_z |-> BaseEndZ(in), i |-> 0, spacing |-> SpacingUsed(in)]
    /\ pc' = IF in.num_bands > 0 THEN "band" ELSE "body_end"
    /\ UNCHANGED <<in, out>>

\* one iteration of `for i in range(num_bands)`
BandStep ==
    /\ pc = "band"
    /\ LET band_start_z == BandStartZ(loc.i, loc.current_z, loc.spacing)
       IN  IF band_start_z >= BodyEndZ(in)
           THEN /\ pc' = "body_end"
                /\ UNCHANGED <<points, loc>>
           ELSE /\ points' = points \o BandPoints(in, band_start_z, loc.current_z)
                /\ loc' = [loc EXCEPT !.current_z = BandEndZ(band_start_z, in),
                                      !.i = loc.i + 1]
                /\ pc' = IF loc.i + 1 < in.num_bands THEN "band" ELSE "body_end"
    /\ UNCHANGED <<in, out>>

\* the end of the body
BodyEnd ==
    /\ pc = "body_end"
    /\ points' = points \o BodyEndPoints(in, points, loc.current_z)
    /\ pc' = "ogive"
    /\ UNCHANGED <<in, loc, out>>

\* the ogive section
OgiveSection ==
    /\ pc = "ogive"
    /\ \E second \in BOOLEAN :
          points' = points \o
             (IF in.variant = "BulletDesigner" THEN OgivePointsSampled(in, second)
                                               ELSE OgivePointsArc(in))
    /\ pc' = "tip"
    /\ UNCHANGED <<in, loc, out>>

\* the tip section and `return points`
TipSection ==
    /\ pc = "tip"
    /\ points' = points \o TipPoints(in, points)
    /\ out' = "returned"
    /\ pc' = "done"
    /\ UNCHANGED <<in, loc>>

ProfileNext ==
    \/ StartProfile
    \/ BaseSection
    \/ BodySection
    \/ BandStep
    \/ BodyEnd
    \/ OgiveSection
    \/ TipSection

SpecProfile == ProfileInit /\ [][ProfileNext]_vars

RECURSIVE ZSorted(_, _)
ZSorted(pts, k) ==
    IF k >= Len(pts) THEN TRUE
    ELSE pts[k][1] <= pts[k + 1][1] /\ ZSorted(pts, k + 1)

\* C1: for every valid DesignParameters the returned profile starts and ends
\* on the rotation axis: the first and the last point have radius 0.
C1_EndsOnAxis ==
    (pc = "done" /\ ValidDesign(in)) =>
        (Len(points) >= 2 /\ points[1][2] = 0 /\ Last(points)[2] = 0)

C1_Witness ==
    /\ pc = "done" /\ ValidDesign(in)
    /\ in.num_bands = 3 /\ HasBoatTail(in) /\ in.meplat_diameter > 0
    /\ in.variant = "BulletDesigner"
    /\ points[1] = <<0, 0>> /\ Last(points) = <<in.length, 0>>

\* C2: for every valid DesignParameters the axial position Z is non-decreasing
\* along the whole returned sequence.
C2_ZNonDecreasing ==
    (pc = "done" /\ ValidDesign(in)) => ZSorted(points, 1)

----------------------------------------------------------------------------
(* calculate_bullet_dimensions_from_weight                                 *)
(* Lengths in units of 1/40 mm, volumes in units of (1/40 mm)^3, weight in *)
(* grains, density in 0.01 g/cm^3, pi = 355/113.                           *)

\* max_iterations: int = 10
DefaultMaxIterations == 10

\* 0.06479891 g/grain * 1000 mm^3/cm^3 * 64000 units/mm^3
VolumeUnitsPerGrain == 4147130

\* volume_total_mm3 (the density is not zero)
VolumeTotal(p) ==
    SMulDiv(VolumeUnitsPerGrain, p.target_weight * 100, p.density100)

\* ogive_length_mm
SolverOgiveLength(p) == SMulDiv(p.ogive_ratio10 * p.groove_diameter, 1, 20)

\* V_ogive_mm3 = pi * r_land^2 * ogive_length / 2
VOgive(p, ogive_length) ==
    LET r_land == p.land_diameter \div 2
    IN  SMulDiv(r_land * r_land * ogive_length, 355, 226)

\* r_base for a boat tail length
SolverBaseRadius(p, bt) ==
    Max(p.land_diameter \div 2 - SMulDiv(bt * TanE4(p.boat_tail_angle), 1, 10000),
        SMulDiv(p.groove_diameter \div 2, 3, 10))

\* V_boattail_mm3: frustum of a cone
VBoatTail(p, bt) ==
    LET r_land == p.land_diameter \div 2
        r_base == SolverBaseRadius(p, bt)
    IN  SMulDiv(bt * (r_base * r_base + r_base * r_land + r_land * r_land), 355, 339)

\* V_bands_mm3: annular cylinders from land to groove radius
VBands(p) ==
    LET r_groove == p.groove_diameter \div 2
        r_land   == p.land_diameter \div 2
    IN  SMulDiv(p.num_bands * (r_groove * r_groove - r_land * r_land) * p.band_length,
                355, 113)

\* the radius the gap volume is laid out at
GapRadius(p) ==
    IF p.land_riding THEN p.land_diameter \div 2 ELSE p.groove_diameter \div 2

GapCoverage(p) ==
    IF p.num_bands > 1 THEN (p.num_bands - 1) * p.band_spacing ELSE 0

\* One pass of the loop body for boat tail length bt: what it decides, and
\* the values it leaves in the locals.
SolverTry(p, bt) ==
    LET v_bearing == VolumeTotal(p) - VOgive(p, SolverOgiveLength(p)) - VBoatTail(p, bt)
        v_gaps    == v_bearing - VBands(p)
        r         == GapRadius(p)
        gap_len   == SMulDiv(v_gaps, 113, 355 * r * r)
    IN  IF v_bearing <= 0
        THEN [outcome |-> "bearing", cov_set |-> FALSE, gap_set |-> FALSE, gap_len |-> 0]
        ELSE IF v_gaps < 0
        THEN [outcome |-> "bands", cov_set |-> TRUE, gap_set |-> FALSE, gap_len |-> 0]
        ELSE IF r = 0
        THEN [outcome |-> "raise", cov_set |-> TRUE, gap_set |-> FALSE, gap_len |-> 0]
        ELSE IF gap_len >= GapCoverage(p)
        THEN [outcome |-> "fit", cov_set |-> TRUE, gap_set |-> TRUE, gap_len |-> gap_len]
        ELSE [outcome |-> "nofit", cov_set |-> TRUE, gap_set |-> TRUE, gap_len |-> gap_len]

\* boat_tail_length_mm *= 0.8 (bearing volume not positive) or *= 0.9
ShrinkBoatTail(bt, outcome) ==
    IF outcome = "bearing" THEN SMulDiv(bt, 8, 10) ELSE SMulDiv(bt, 9, 10)

\* a result whose total length leaves the band coverage out
SolverValidResultNoBands(p, bt, gap_len) ==
    [kind |-> "returned", is_valid |-> TRUE,
     total_length |-> bt + gap_len + SolverOgiveLength(p),
     boat_tail_length |-> bt,
     bearing_surface_length |-> p.num_bands * p.band_length + gap_len,
     ogive_length |-> SolverOgiveLength(p),
     gap_length_needed |-> gap_len,
     gap_coverage |-> GapCoverage(p),
     validation_message |-> "Valid: gap_length_needed >= gap_coverage"]

\* the dictionary returned on the valid path
SolverValidResult(p, bt, gap_len) ==
    [kind |-> "returned", is_valid |-> TRUE,
     total_length |-> bt + (p.num_bands * p.band_length + gap_len) + SolverOgiveLength(p),
     boat_tail_length |-> bt,
     bearing_surface_length |-> p.num_bands * p.band_length + gap_len,
     ogive_length |-> SolverOgiveLength(p),
     gap_length_needed |-> gap_len,
     gap_coverage |-> GapCoverage(p),
     validation_message |-> "Valid: gap_length_needed >= gap_coverage"]

\* the dictionary returned when the loop is exhausted
SolverInvalidResult(p, l) ==
    [kind |-> "returned", is_valid |-> FALSE,
     total_length |-> 0,
     boat_tail_length |-> l.bt,
     bearing_surface_length |-> 0,
     ogive_length |-> SolverOgiveLength(p),
     gap_length_needed |-> IF l.gap_set THEN l.gap_len ELSE 0,
     gap_coverage |-> IF l.cov_set THEN GapCoverage(p) ELSE 0,
     validation_message |-> "Failed to find valid dimensions after max_iterations iterations"]

Raised(what) == [kind |-> "raised", exception |-> what]

\* The calls explored: 42, 65 and 140 grain copper (8.9) and lead (11.3) bullets
\* of 6.7/6.5 mm, 0 to 6 bands of 2.25 mm, and zero or negative values of
\* weight, density and diameters.
SolverInputs ==
    { [ target_weight |-> w, groove_diameter |-> g, land_diameter |-> l,
        density100 |-> d, num_bands |-> nb, band_length |-> 90,
        band_spacing |-> bs, ogive_ratio10 |-> 30, ogive_type |-> "Tangent",
        boat_tail_angle |-> a, meplat_diameter |-> 60, land_riding |-> lr,
        max_iterations |-> mi ] :
        w \in {-140, 0, 42, 65, 140}, g \in {0, 268}, l \in {0, 260},
        d \in {0, 890, 1130}, nb \in {0, 3, NumBandsMax}, bs \in {120, 400},
        a \in {0, 9}, lr \in BOOLEAN, mi \in {1, DefaultMaxIterations} }

SolverNoLoc ==
    [bt |-> 0, iteration |-> 0, cov_set |-> FALSE, gap_set |-> FALSE, gap_len |-> 0,
     first_feasible |-> "none", last |-> "none", tried |-> << >>]

SolverInit ==
    /\ pc = "s_start"
    /\ in \in SolverInputs
    /\ loc = SolverNoLoc
    /\ points = << >>
    /\ out = "none"

\* lines 480-503: required volume, radii, ogive volume, first boat tail length
SolverStart ==
    /\ pc = "s_start"
    /\ IF in.density100 = 0
       THEN /\ out' = Raised("ZeroDivisionError")
            /\ pc' = "s_done"
            /\ loc' = loc
       ELSE /\ loc' = [loc EXCEPT !.bt = SMulDiv(in.groove_diameter, 7, 10)]
            /\ pc' = "s_loop"
            /\ out' = out
    /\ UNCHANGED <<in, points>>

\* one pass of `for iteration in range(max_iterations)`
SolverIterate ==
    /\ pc = "s_loop"
    /\ loc.iteration < in.max_iterations
    /\ LET t == SolverTry(in, loc.bt)
           l == [loc EXCEPT !.iteration = loc.iteration + 1,
                            !.cov_set = loc.cov_set \/ t.cov_set,
                            !.gap_set = loc.gap_set \/ t.gap_set,
                            !.gap_len = IF t.gap_set THEN t.gap_len ELSE loc.gap_len,
                            !.first_feasible =
                                IF loc.first_feasible = "none" /\ t.outcome \in {"fit", "nofit"}
                                THEN t.outcome ELSE loc.first_feasible,
                            !.last = t.outcome,
                            !.tried = Append(loc.tried, loc.bt)]
       IN  IF t.outcome = "raise"
           THEN /\ out' = Raised("ZeroDivisionError")
                /\ pc' = "s_done"
                /\ loc' = l
           ELSE IF t.outcome = "fit"
           THEN /\ out' = IF in.groove_diameter = 0 \/ in.target_weight = 0
                          THEN Raised("ZeroDivisionError")
                          ELSE SolverValidResult(in, loc.bt, t.gap_len)
                /\ pc' = "s_done"
                /\ loc' = l
           ELSE /\ loc' = [l EXCEPT !.bt = ShrinkBoatTail(loc.bt, t.outcome)]
                /\ pc' = "s_loop"
                /\ out' = out
    /\ UNCHANGED <<in, points>>

\* lines 650-671: the loop is exhausted
SolverFail ==
    /\ pc = "s_loop"
    /\ loc.iteration >= in.max_iterations
    /\ out' = SolverInvalidResult(in, loc)
    /\ pc' = "s_done"
    /\ UNCHANGED <<in, loc, points>>

SolverNext ==
    \/ SolverStart
    \/ SolverIterate
    \/ SolverFail

SpecSolver == SolverInit /\ [][SolverNext]_vars

\* positive weight, density and diameters, land below groove
PhysicalSolverInput(p) ==
    /\ p.target_weight > 0 /\ p.density100 > 0
    /\ 0 < p.land_diameter /\ p.land_diameter < p.groove_diameter
    /\ p.band_length > 0 /\ p.band_spacing >= 0

\* The volume of the returned dimensions: the ogive and boat tail as the
\* solver approximates them, and a bearing section of the returned length at
\* body radius that carries the bands.
RecomputedVolume(p, o) ==
    VOgive(p, o.ogive_length) + VBoatTail(p, o.boat_tail_length)
    + SMulDiv(GapRadius(p) * GapRadius(p) * o.bearing_surface_length, 355, 113)
    + (IF p.land_riding THEN VBands(p) ELSE 0)

\* C3: whenever the solver reports is_valid = True, the volume recomputed
\* from the returned dimensions agrees with mass / density within 1%.
C3_VolumeAgrees ==
    (pc = "s_done" /\ PhysicalSolverInput(in) /\ out.kind = "returned" /\ out.is_valid) =>
        Abs(RecomputedVolume(in, out) - VolumeTotal(in)) <= VolumeTotal(in) \div 100

SolverEquation(p, o) ==
    o.total_length =
        o.boat_tail_length + (p.num_bands * p.band_length + o.gap_length_needed)
        + o.ogive_length

\* C4 as stated: is_valid = True exactly when the first boat tail length with
\* a positive bearing volume and a non-negative gap volume has a gap that
\* fits; the returned lengths then add up.
C4_FirstFeasibleDecides ==
    (pc = "s_done" /\ out.kind = "returned") =>
        /\ out.is_valid <=> (loc.first_feasible = "fit")
        /\ out.is_valid => SolverEquation(in, out)

\* C4 as amended: every result returned has is_valid = True exactly when one
\* of the at most max_iterations boat tail lengths tried (0.7 x groove
\* diameter, then shrunk after every try that fails, a too short gap included)
\* has a positive bearing volume, a non-negative gap volume and a needed gap
\* >= the gap coverage; the result is that of the first such try, which is the
\* last one tried, and its lengths add up.
C4_SomeTryDecides ==
    (pc = "s_done" /\ out.kind = "returned") =>
        /\ out.is_valid <=>
              (\E k \in 1..Len(loc.tried) : SolverTry(in, loc.tried[k]).outcome = "fit")
        /\ Len(loc.tried) <= in.max_iterations
        /\ Len(loc.tried) > 0 => loc.tried[1] = SMulDiv(in.groove_diameter, 7, 10)
        /\ out.is_valid =>
              /\ out.boat_tail_length = Last(loc.tried)
              /\ \A k \in 1..(Len(loc.tried) - 1) :
                     SolverTry(in, loc.tried[k]).outcome # "fit"
              /\ out.gap_length_needed >= out.gap_coverage
              /\ out.ogive_length = SolverOgiveLength(in)
              /\ SolverEquation(in, out)

C4_Witness ==
    /\ pc = "s_done" /\ out.kind = "returned" /\ out.is_valid
    /\ PhysicalSolverInput(in) /\ in.num_bands = 3
    /\ loc.first_feasible = "nofit" /\ Len(loc.tried) > 1

\* C5: at most max_iterations boat tail lengths are evaluated, and when
\* none of them fits the call returns (does not raise) the invalid result:
\* is_valid = False, total_length_mm = 0.0, the gap diagnostics and a message
\* that is not empty.
C5_NoFitReturnsInvalid ==
    /\ loc.iteration <= in.max_iterations
    /\ Len(loc.tried) = loc.iteration
    /\ (pc = "s_done" /\ loc.last # "fit") =>
          /\ out.kind = "returned" /\ ~out.is_valid
          /\ out.total_length = 0
          /\ out.gap_length_needed = (IF loc.gap_set THEN loc.gap_len ELSE 0)
          /\ out.gap_coverage = (IF loc.cov_set THEN GapCoverage(in) ELSE 0)
          /\ out.validation_message # ""

\* C6: the solver never raises: every call returns a dictionary tagged
\* with is_valid.
C6_NeverRaises ==
    pc = "s_done" => (out.kind = "returned" /\ out.is_valid \in BOOLEAN)

\* C27: whenever the solver reports is_valid = True, the returned boat tail
\* is at most 0.3 of the returned total length, the bound beyond which
\* BulletFeature.execute replaces the boat-tail length
C27_BoatTailWithinThreeTenths ==
    (pc = "s_done" /\ out.kind = "returned" /\ out.is_valid) =>
        10 * out.boat_tail_length <= 3 * out.total_length

----------------------------------------------------------------------------
(* The ballistic metrics of Utils/Calculations.py                          *)
(* Diameters and lengths in 0.01 mm, weight in grains, twist in inches,    *)
(* velocity in m/s, temperature in C, pressure in Pa, density in           *)
(* 0.01 g/cm^3.  An optional argument is a sequence: <<>> is Python's     *)
(* None, <<x>> the value x.                                                *)

RECURSIVE MulDivQR(_, _, _)
\* <<quotient, remainder>> of x * a by b without forming the product
\* (x, a >= 0, 0 < b < 2^29): a is taken apart in digits of a radix small
\* enough for radix * b to fit
MulDivQR(x, a, b) ==
    IF a = 0 THEN <<0, 0>>
    ELSE IF x <= 2147483647 \div a THEN <<(x * a) \div b, (x * a) % b>>
    ELSE LET radix == Max(2, 1073741823 \div b)
             h     == MulDivQR(x, a \div radix, b)
             r2    == radix * h[2] + (a % radix) * (x % b)
         IN  <<radix * h[1] + (a % radix) * (x \div b) + r2 \div b, r2 % b>>

\* x * a / b truncated toward zero, any signs
WideMulDiv(x, a, b) ==
    LET q == IF a = 0 \/ Abs(x) <= 2147483647 \div Abs(a)
             THEN (Abs(x) * Abs(a)) \div Abs(b)
             ELSE MulDivQR(Abs(x), Abs(a), Abs(b))[1]
    IN  IF (x < 0) = ((a < 0) = (b < 0)) THEN -q ELSE q

\* n / d rounded to the nearest integer (n >= 0, d > 0)
RoundDiv(n, d) == (2 * n + d) \div (2 * d)

RECURSIVE ICbrtIter(_, _, _)
ICbrtIter(n, lo, hi) ==
    IF lo >= hi THEN lo
    ELSE LET mid == (lo + hi + 1) \div 2
         IN  IF mid * mid * mid <= n THEN ICbrtIter(n, mid, hi)
                                     ELSE ICbrtIter(n, lo, mid - 1)

\* floor(n ^ (1/3)) for 0 <= n < 2^31
ICbrt(n) == IF n <= 0 THEN 0 ELSE ICbrtIter(n, 0, 1290)

\* n ^ (1/3) * 1000 for 0 < n < 2^31: the integer root and one Newton
\* correction
Cbrt1000(n) ==
    LET c == ICbrt(n)
    IN  IF c = 0 THEN 0 ELSE c * 1000 + WideMulDiv(n - c * c * c, 1000, 3 * c * c)

\* x / 25.4 in 10^-6 inch, x in 0.01 mm
Inches(x100) == WideMulDiv(x100, 100000, 254)

\* velocity_fps * 10
VelocityFps10(v) == WideMulDiv(v, 328084, 10000)

\* 7.0 <= material_density_g_per_cm3 <= 9.5
IsMonolithic(density100) ==
    density100 # <<>> /\ 700 <= density100[1] /\ density100[1] <= 950

\* calculate_sectional_density, * 10000
SectionalDensity(d100, w) ==
    IF d100 <= 0 \/ w <= 0 THEN 0
    ELSE WideMulDiv(9216571, w, d100 * d100)

FormFactor100(ogive_type) ==
    IF ogive_type = "Secant" THEN 80 ELSE IF ogive_type = "Elliptical" THEN 75 ELSE 85

\* calculate_ballistic_coefficient_g1, * 1000
BallisticCoefficientG1(d100, w, l100, ogive_type) ==
    IF d100 <= 0 \/ w <= 0 \/ l100 <= 0 THEN 0
    ELSE LET sd    == SectionalDensity(d100, w)
             boost == IF Inches(l100) > 4 * Inches(d100) THEN 105 ELSE 100
         IN  RoundDiv(sd * boost, FormFactor100(ogive_type) * 10)

\* length_calibers * (1 + length_calibers ** 2), * 10^5, from
\* length_calibers * 10^5
CalibersTerm(l1e5) ==
    WideMulDiv(100000 + WideMulDiv(l1e5, l1e5, 100000), l1e5, 100000)

\* diameter_inches ** 3, * 10^9, from diameter_inches * 10^6
Cube(d1e6) == WideMulDiv(WideMulDiv(d1e6, d1e6, 1000000), d1e6, 1000)

\* calculate_recommended_twist_rate
\* twist_rate before it is rounded, * 1000
TwistRate(d100, l100, w, v, eff100, density100) ==
    IF d100 <= 0 \/ l100 <= 0
    THEN [kind |-> "returned", twist |-> 0, formatted |-> "N/A"]
    ELSE
    LET d_in   == Inches(IF eff100 # <<>> THEN eff100[1] ELSE d100)
        l_in   == Inches(l100)
        vfps10 == VelocityFps10(v)
        done(t1000) == [kind |-> "twist_rate", twist_rate |-> t1000]
    IN  IF IsMonolithic(density100)
        THEN IF d_in = 0 THEN Raised("ZeroDivisionError")
             ELSE
             LET l1e5   == WideMulDiv(l_in, 100000, d_in)
                 \* 1.8 * d^3 * l * (1 + l^2), * 10^6
                 den1e6 == WideMulDiv(WideMulDiv(Cube(d_in), CalibersTerm(l1e5), 100000000), 18, 10)
                 \* (2800 / velocity_fps) ^ (1/6), * 10^4
                 vc1e4  == IF vfps10 > 0
                           THEN ISqrt(Cbrt1000(WideMulDiv(28000, 1000000000, vfps10)) * 100)
                           ELSE 10000
             IN  IF den1e6 > 0 /\ w < 0 THEN Raised("ValueError")
                 ELSE LET root100 == IF den1e6 > 0
                                     THEN ISqrt(WideMulDiv(30 * w * 10000, 1000000, den1e6))
                                     ELSE 0
                      IN  done(WideMulDiv(WideMulDiv(d_in, root100, 100000), vc1e4, 10000))
        ELSE LET t1000 == WideMulDiv(WideMulDiv(d_in, d_in, 1000000), 150000, l_in)
             IN  IF vfps10 <= 28000 THEN done(t1000)
                 ELSE done(WideMulDiv(t1000, ISqrt(WideMulDiv(vfps10, 100000000, 28000)), 10000))

\* calculate_recommended_twist_rate: round(twist_rate) and its "1:N\"" text
RecommendedTwist(d100, l100, w, v, eff100, density100) ==
    LET r == TwistRate(d100, l100, w, v, eff100, density100)
    IN  IF r.kind # "twist_rate" THEN r
        ELSE LET n == IF r.twist_rate >= 0 THEN RoundDiv(r.twist_rate, 1000)
                      ELSE -RoundDiv(-r.twist_rate, 1000)
             IN  [kind |-> "returned", twist |-> n,
                  formatted |-> "1:" \o ToString(n) \o "\""]

\* stability_threshold * 10
StabilityThreshold(density100) == IF IsMonolithic(density100) THEN 18 ELSE 15

\* calculate_stability_factor_miller for a twist given in 0.001 inch:
\* stability * 100 and threshold * 10
Stability(d100, l100, w, twist1000, v, temp, pressure, eff100, density100) ==
    IF d100 <= 0 \/ l100 <= 0 \/ w <= 0 \/ twist1000 <= 0
    THEN [kind |-> "returned", stability |-> 0, threshold |-> 15]
    ELSE
    LET d_in   == Inches(IF eff100 # <<>> THEN eff100[1] ELSE d100)
        l_in   == Inches(l100)
        vfps10 == VelocityFps10(v)
        \* (temperature_f + 459.67) * 100
        rank100 == temp * 180 + 3200 + 45967
    IN  IF d_in = 0 THEN Raised("ZeroDivisionError")
        ELSE IF rank100 < 0 \/ pressure < 0 THEN Raised("ValueError")
        ELSE
        LET l1e5   == WideMulDiv(l_in, 100000, d_in)
            tc1e4  == WideMulDiv(twist1000 * 10, 1000000, d_in)
            tcsq   == WideMulDiv(tc1e4, tc1e4, 100000)
            \* twist_calibers^2 * d^3 * l * (1 + l^2), * 10^4
            den1e4 == WideMulDiv(WideMulDiv(tcsq, Cube(d_in), 1000000),
                                 CalibersTerm(l1e5), 10000000)
            \* (velocity_fps / 2800) ^ (1/3), * 10^6
            vc1e6  == IF vfps10 > 0 THEN Cbrt1000(WideMulDiv(vfps10, 1000000, 28))
                      ELSE 1000000
            tcorr  == ISqrt(WideMulDiv(rank100, 100000000, 51867))
            pcorr  == ISqrt(WideMulDiv(pressure, 100000000, 101321))
            sg1e4  == WideMulDiv(WideMulDiv(30 * w, vc1e6, 1000), 100000, Max(1, den1e4))
            sg     == WideMulDiv(WideMulDiv(sg1e4, tcorr, 10000), pcorr, 10000)
        IN  [kind |-> "returned", stability |-> RoundDiv(sg, 100),
             threshold |-> StabilityThreshold(density100)]

\* calculate_stability_factor_miller for a twist given in whole inches
StabilityMiller(d100, l100, w, twist, v, temp, pressure, eff100, density100) ==
    Stability(d100, l100, w, twist * 1000, v, temp, pressure, eff100, density100)

\* the arguments the metric functions are called with
MetricArguments ==
    [diameter |-> {-670, 0, 670}, length |-> {0, 2000, 3200},
     weight |-> {-140, 0, 140}, twist |-> {-8, 0, 8},
     velocity |-> {0, 853, 900}, temperature |-> {-300, 15},
     pressure |-> {-500, 101325},
     effective_diameter |-> {<<>>, <<0>>, <<650>>},
     density |-> {<<>>, <<699>>, <<700>>, <<890>>, <<950>>, <<951>>, <<1130>>}]

MetricsInit ==
    /\ pc = "metrics"
    /\ in = [fn |-> "none"]
    /\ loc = <<>>
    /\ points = <<>>
    /\ out = [kind |-> "none"]

CallSectionalDensity ==
    /\ pc = "metrics"
    /\ \E d \in MetricArguments.diameter, w \in MetricArguments.weight :
         /\ in' = [fn |-> "calculate_sectional_density", diameter |-> d, weight |-> w]
         /\ out' = [kind |-> "returned", value |-> SectionalDensity(d, w)]
    /\ pc' = "returned"
    /\ UNCHANGED <<loc, points>>

CallBallisticCoefficientG1 ==
    /\ pc = "metrics"
    /\ \E d \in MetricArguments.diameter, w \in MetricArguments.weight, l \in MetricArguments.length,
          t \in {"Tangent", "Secant", "Elliptical"} :
         /\ in' = [fn |-> "calculate_ballistic_coefficient_g1", diameter |-> d,
                   weight |-> w, length |-> l, ogive_type |-> t]
         /\ out' = [kind |-> "returned", value |-> BallisticCoefficientG1(d, w, l, t)]
    /\ pc' = "returned"
    /\ UNCHANGED <<loc, points>>

CallRecommendedTwist ==
    /\ pc = "metrics"
    /\ \E d \in MetricArguments.diameter, l \in MetricArguments.length, w \in MetricArguments.weight,
          v \in MetricArguments.velocity, e \in MetricArguments.effective_diameter,
          rho \in MetricArguments.density :
         /\ in' = [fn |-> "calculate_recommended_twist_rate", diameter |-> d,
                   length |-> l, weight |-> w, velocity |-> v,
                   effective_diameter |-> e, density |-> rho]
         /\ out' = RecommendedTwist(d, l, w, v, e, rho)
    /\ pc' = "returned"
    /\ UNCHANGED <<loc, points>>

CallStabilityMiller ==
    /\ pc = "metrics"
    /\ \E d \in MetricArguments.diameter, l \in MetricArguments.length, w \in MetricArguments.weight,
          tw \in MetricArguments.twist, v \in MetricArguments.velocity, temp \in MetricArguments.temperature,
          p \in MetricArguments.pressure, e \in MetricArguments.effective_diameter,
          rho \in MetricArguments.density :
         /\ in' = [fn |-> "calculate_stability_factor_miller", diameter |-> d,
                   length |-> l, weight |-> w, twist |-> tw, velocity |-> v,
                   temperature |-> temp, pressure |-> p,
                   effective_diameter |-> e, density |-> rho]
         /\ out' = StabilityMiller(d, l, w, tw, v, temp, p, e, rho)
    /\ pc' = "returned"
    /\ UNCHANGED <<loc, points>>

\* the monolithic bullets whose recommended twist is fed back into the
\* Miller stability calculation
MonolithicArguments ==
    [diameter |-> {670, 780}, length |-> {2000, 3200}, weight |-> {140, 180},
     velocity |-> {600, 853, 900, 1000}, density |-> {<<700>>, <<890>>, <<950>>}]

\* twist_rate of calculate_recommended_twist_rate passed, unrounded, as
\* twist_rate_inches to calculate_stability_factor_miller at 15 C, 1013.25 hPa
CallStabilityAtRecommendedTwist ==
    /\ pc = "metrics"
    /\ \E d \in MonolithicArguments.diameter, l \in MonolithicArguments.length,
          w \in MonolithicArguments.weight, v \in MonolithicArguments.velocity,
          rho \in MonolithicArguments.density :
         \E t \in {TwistRate(d, l, w, v, <<>>, rho)} :
            /\ t.kind = "twist_rate"
            /\ in' = [fn |-> "stability_at_recommended_twist", diameter |-> d,
                      length |-> l, weight |-> w, twist_rate |-> t.twist_rate,
                      velocity |-> v, temperature |-> 15, pressure |-> 101325,
                      effective_diameter |-> <<>>, density |-> rho]
            /\ out' = Stability(d, l, w, t.twist_rate, v, 15, 101325, <<>>, rho)
    /\ pc' = "returned"
    /\ UNCHANGED <<loc, points>>

MetricsNext ==
    \/ CallSectionalDensity
    \/ CallBallisticCoefficientG1
    \/ CallRecommendedTwist
    \/ CallStabilityMiller
    \/ CallStabilityAtRecommendedTwist

SpecMetrics == MetricsInit /\ [][MetricsNext]_vars

\* a metric call one of whose diameter, length, mass or twist arguments is
\* not positive
NonPositiveArgument ==
    /\ pc = "returned"
    /\ \/ in.diameter <= 0
       \/ in.weight <= 0
       \/ in.fn # "calculate_sectional_density" /\ in.length <= 0
       \/ in.fn = "calculate_stability_factor_miller" /\ in.twist <= 0

\* C7: a metric function called with a non-positive diameter, length, mass
\* or twist returns its zero result (0.0, (0, "N/A"), (0.0, threshold)) and
\* does not raise
C7_NonPositiveYieldsZero ==
    (pc \in {"metrics", "returned"} /\ NonPositiveArgument) =>
        /\ out.kind = "returned"
        /\ in.fn \in {"calculate_sectional_density",
                      "calculate_ballistic_coefficient_g1"} => out.value = 0
        /\ in.fn = "calculate_recommended_twist_rate" =>
               out.twist = 0 /\ out.formatted = "N/A"
        /\ in.fn = "calculate_stability_factor_miller" => out.stability = 0

\* C8: the threshold returned by the Miller stability calculation is 1.8
\* when 7.0 <= density <= 9.5 and 1.5 otherwise, whatever the other
\* arguments are
C8_ThresholdFromDensityOnly ==
    (pc = "returned" /\ in.fn = "calculate_stability_factor_miller"
       /\ out.kind = "returned") =>
        out.threshold = (IF in.density # <<>> /\ in.density[1] >= 700
                            /\ in.density[1] <= 950 THEN 18 ELSE 15)

\* the recommended twist of a monolithic bullet was fed back into the Miller
\* stability calculation
AtRecommendedTwist ==
    pc = "returned" /\ in.fn = "stability_at_recommended_twist" /\ out.kind = "returned"

\* C22: for a monolithic density the unrounded recommended twist, fed back
\* with the same diameter, length, mass and muzzle velocity at 15 C and
\* 1013.25 hPa, gives a Miller stability factor equal to the 1.8 threshold
\* (to 0.02), for every muzzle velocity
C22_TwistSolvesMiller ==
    AtRecommendedTwist =>
        /\ out.threshold = 18
        /\ Abs(out.stability - 10 * out.threshold) <= 2

\* at 2800 fps (853 m/s) the recommended twist does give the threshold
C22_AtReferenceVelocity ==
    (AtRecommendedTwist /\ in.velocity = 853) =>
        Abs(out.stability - 10 * out.threshold) <= 2

----------------------------------------------------------------------------
(* The trajectory integration of Commands/TrajectoryCalculator.py           *)
(* Positions in 10^-5 m, velocities in 10^-5 m/s, accelerations in          *)
(* 10^-5 m/s^2, time in steps of dt = 1 ms.  Air density in g/m^3, area in  *)
(* 10^-8 m^2, mass in mg, form factor in 0.001, speed of sound in 0.1 m/s.  *)

\* position and velocity units per metre
UnitsPerMetre == 100000

\* 1 / dt
StepsPerSecond == 1000

\* 9.80665 m/s^2
Gravity == 980665

\* the output interval, 100.0 m, and the initial last_output_range
OutputInterval == 100 * UnitsPerMetre
LastOutputRangeInit == -100 * UnitsPerMetre

\* the drop limit, -1000.0 m
DropLimit == -1000 * UnitsPerMetre

\* MACH_TABLE * 1000 and CD_TABLE * 10000
MACH_TABLE ==
    <<0, 500, 700, 800, 825, 850, 875, 900, 925, 950, 975, 1000, 1025, 1050,
      1100, 1200, 1300, 1500, 1800, 2000, 2500, 3000>>
CD_TABLE ==
    <<1198, 1197, 1196, 1312, 1352, 1404, 1479, 1589, 1776, 2034, 2165, 2346,
      2407, 2497, 2596, 2677, 2680, 2656, 2458, 2344, 2049, 1776>>

\* interpolate_cd_g7 without the two clamps: the end segments are extended
InterpolateCdG7Unclamped(mach) ==
    LET n   == Len(MACH_TABLE)
        idx == IF mach <= MACH_TABLE[1] THEN 2
               ELSE IF mach >= MACH_TABLE[n] THEN n
               ELSE CHOOSE i \in 2..n : MACH_TABLE[i - 1] < mach /\ mach <= MACH_TABLE[i]
    IN  CD_TABLE[idx - 1]
        + ((mach - MACH_TABLE[idx - 1]) * (CD_TABLE[idx] - CD_TABLE[idx - 1]))
          \div (MACH_TABLE[idx] - MACH_TABLE[idx - 1])

\* interpolate_cd_g7 returning cd_low instead of interpolating
InterpolateCdG7Low(mach) ==
    IF mach <= 0 THEN CD_TABLE[1]
    ELSE IF mach >= MACH_TABLE[Len(MACH_TABLE)] THEN CD_TABLE[Len(CD_TABLE)]
    ELSE CD_TABLE[(CHOOSE i \in 2..Len(MACH_TABLE) :
                      MACH_TABLE[i - 1] < mach /\ mach <= MACH_TABLE[i]) - 1]

\* interpolate_cd_g7: mach * 1000 to CD * 10000
InterpolateCdG7(mach) ==
    IF mach <= 0 THEN CD_TABLE[1]
    ELSE IF mach >= MACH_TABLE[Len(MACH_TABLE)] THEN CD_TABLE[Len(CD_TABLE)]
    ELSE LET idx == CHOOSE i \in 1..Len(MACH_TABLE) :
                        /\ MACH_TABLE[i] >= mach
                        /\ \A j \in 1..(i - 1) : MACH_TABLE[j] < mach
         IN  IF idx = 1 THEN CD_TABLE[1]
             ELSE CD_TABLE[idx - 1]
                  + ((mach - MACH_TABLE[idx - 1]) * (CD_TABLE[idx] - CD_TABLE[idx - 1]))
                    \div (MACH_TABLE[idx] - MACH_TABLE[idx - 1])

\* sqrt(vx * vx + vy * vy); exact to the unit below 0.3 m/s, to one part
\* in 300 or better above, and 0 only when both components are 0
Speed(vx, vy) ==
    LET big == Max(Abs(vx), Abs(vy))
        k   == IF big < 32000 THEN 1
               ELSE IF big < 3200000 THEN 100
               ELSE IF big < 320000000 THEN 10000 ELSE 100000
        a   == Abs(vx) \div k
        b   == Abs(vy) \div k
    IN  ISqrt(a * a + b * b) * k

\* v / c if c > 0 else 0.0, * 1000
Mach(v, c) == IF c > 0 THEN WideMulDiv(v \div 10000, 1000, c) ELSE 0

\* a deceleration of 1 m/s^2 whatever the drag inputs are
DragDecelerationConstant(v, rho, A, m_kg, i7, c) == UnitsPerMetre

\* F_drag / m_kg for speed v (m_kg # 0)
DragDeceleration(v, rho, A, m_kg, i7, c) ==
    LET cd    == WideMulDiv(i7, InterpolateCdG7(Mach(v, c)), 1000)
        v_dm  == v \div 10000
        \* rho * v * v * cd, * 100, then F_drag in 10^-4 N
        rvvc  == WideMulDiv(WideMulDiv(v_dm * v_dm, rho, 1000), cd, 10000)
    IN  WideMulDiv(WideMulDiv(rvvc, A, 2000000), 10000000, m_kg)

\* trajectory_derivatives: [vx, vy, ax, ay], or the ZeroDivisionError of
\* F_drag / m_kg
TrajectoryDerivatives(state, rho, A, m_kg, i7, c) ==
    LET vx == state[3]
        vy == state[4]
    IN  CHOOSE r \in
          { IF v <= 0 THEN [raised |-> FALSE, k |-> <<0, 0, 0, -Gravity>>]
            ELSE IF m_kg = 0 THEN [raised |-> TRUE, k |-> <<>>]
            ELSE CHOOSE q \in
                   { [raised |-> FALSE,
                      k |-> <<vx, vy,
                              -WideMulDiv(decel, vx, v),
                              -WideMulDiv(decel, vy, v) - Gravity>>]
                     : decel \in {DragDeceleration(v, rho, A, m_kg, i7, c)} } : TRUE
            : v \in {Speed(vx, vy)} } : TRUE

\* state[i] + h * k[i] for the four components, h = 1 / per, each product
\* rounded to the nearest unit
Advance(state, k, per) ==
    [i \in 1..4 |-> state[i] + (2 * k[i] + per) \div (2 * per)]

\* cos and sin of the elevation angle, * 10000
ElevationTable ==
    [level |-> <<10000, 0>>, steep |-> <<6000, 8000>>,
     rearward |-> <<-6000, -8000>>, down |-> <<0, -10000>>]

\* bullet_length_calibers ** 1.83, * 100, for 3.0, 3.1, ... 6.0 calibers
Pow183Table ==
    <<747, 793, 840, 889, 939, 990, 1042, 1096, 1151, 1207, 1264, 1322,
      1382, 1443, 1505, 1568, 1632, 1698, 1765, 1833, 1902, 1972, 2043,
      2116, 2189, 2264, 2340, 2417, 2495, 2574, 2655>>

\* calculate_spin_drift, in mm; stability factor * 100
SpinDrift(sg100, l100, d100, range) ==
    IF d100 <= 0 \/ l100 <= 0 THEN 0
    ELSE LET cal10  == Min(60, Max(30, WideMulDiv(l100, 10, d100)))
             \* drift_per_100m_mm * 10
             per100 == WideMulDiv(WideMulDiv(125 * (sg100 + 120), Pow183Table[cal10 - 29], 10000),
                                  25400, 9144)
             r1000  == range \div (UnitsPerMetre \div 10)
         IN  WideMulDiv(per100, WideMulDiv(r1000, ISqrt(r1000 * 1000), 1000), 10000)

\* the arguments integrate_trajectory_rk4 is called with
TrajectoryInputs ==
    [v0 : {0, 800}, elevation : DOMAIN ElevationTable, rho : {0, 1225},
     A : {3526}, m_kg : {0, 9072}, i7 : {0, 1620}, c : {3403},
     max_range : {0, 250}, min_velocity : {50, 700}, stability_factor : {219},
     length : {3200}, diameter : {670}]

TrajectoryInit ==
    /\ pc = "integrate_trajectory_rk4"
    /\ in \in TrajectoryInputs
    /\ loc = [state |-> <<0, 0, 0, 0>>, t |-> 0, last_output_range |-> 0]
    /\ points = <<>>
    /\ out = [kind |-> "none"]

\* lines 283-291: the initial state
BeginIntegration ==
    /\ pc = "integrate_trajectory_rk4"
    /\ loc' = [state |-> <<0, 0,
                           in.v0 * (UnitsPerMetre \div 10000) * ElevationTable[in.elevation][1],
                           in.v0 * (UnitsPerMetre \div 10000) * ElevationTable[in.elevation][2]>>,
               t |-> 0,
               last_output_range |-> LastOutputRangeInit]
    /\ pc' = "while"
    /\ UNCHANGED <<in, points, out>>

\* the derivatives at state + h * prev.k (h = 1 / per), unless the
\* evaluation of prev raised
NextDerivatives(prev, state, per, p) ==
    IF prev.raised THEN prev
    ELSE TrajectoryDerivatives(Advance(state, prev.k, per),
                               p.rho, p.A, p.m_kg, p.i7, p.c)

\* line 305: state[i] += dt / 6.0 * (k1[i] + 2*k2[i] + 2*k3[i] + k4[i])
RK4Update(state, k1, k2, k3, k4) ==
    Advance(state, [i \in 1..4 |-> k1[i] + 2 * k2[i] + 2 * k3[i] + k4[i]],
            6 * StepsPerSecond)

\* a loop that ends by the velocity floor only
GuardVelocityOnly(state, p) ==
    IF Speed(state[3], state[4]) < p.min_velocity * UnitsPerMetre THEN "velocity"
    ELSE "none"

\* which of the three guards of lines 318-323 ends the loop, if any
Guard(state, p) ==
    IF Speed(state[3], state[4]) < p.min_velocity * UnitsPerMetre THEN "velocity"
    ELSE IF state[1] >= p.max_range * UnitsPerMetre THEN "range"
    ELSE IF state[2] < DropLimit THEN "drop"
    ELSE "none"

\* a sampling rule that measures the first interval from the muzzle
SampleDueFromMuzzle(x, last_output_range) ==
    x - Max(0, last_output_range) >= OutputInterval

\* lines 326-330: is a sample due at range x
SampleDue(x, last_output_range) == x - last_output_range >= OutputInterval

\* the tuple appended to trajectory_points
Sample(state, t, p) ==
    [range |-> state[1],
     velocity |-> Speed(state[3], state[4]),
     mach |-> Mach(Speed(state[3], state[4]), p.c),
     drop |-> -state[2],
     spin_drift |-> SpinDrift(p.stability_factor, p.length, p.diameter, state[1]),
     t |-> t]

\* one iteration of the while loop, lines 293-330
IntegrationStep ==
    /\ pc = "while"
    /\ \E k1 \in {TrajectoryDerivatives(loc.state, in.rho, in.A, in.m_kg, in.i7, in.c)} :
       \E k2 \in {NextDerivatives(k1, loc.state, 2 * StepsPerSecond, in)} :
       \E k3 \in {NextDerivatives(k2, loc.state, 2 * StepsPerSecond, in)} :
       \E k4 \in {NextDerivatives(k3, loc.state, StepsPerSecond, in)} :
         IF k4.raised
         THEN /\ pc' = "raised"
              /\ out' = Raised("ZeroDivisionError")
              /\ UNCHANGED <<loc, points>>
         ELSE
         \E next \in {RK4Update(loc.state, k1.k, k2.k, k3.k, k4.k)} :
         \E guard \in {Guard(next, in)} :
           IF guard # "none"
           THEN /\ pc' = "returned"
                /\ loc' = [loc EXCEPT !.state = next, !.t = loc.t + 1]
                /\ out' = [kind |-> "returned", guard |-> guard]
                /\ UNCHANGED points
           ELSE IF SampleDue(next[1], loc.last_output_range)
           THEN /\ pc' = "while"
                /\ loc' = [state |-> next, t |-> loc.t + 1, last_output_range |-> next[1]]
                /\ points' = Append(points, Sample(next, loc.t + 1, in))
                /\ UNCHANGED out
           ELSE /\ pc' = "while"
                /\ loc' = [loc EXCEPT !.state = next, !.t = loc.t + 1]
                /\ UNCHANGED <<points, out>>
    /\ UNCHANGED in

TrajectoryNext ==
    \/ BeginIntegration
    \/ IntegrationStep

SpecTrajectory == TrajectoryInit /\ [][TrajectoryNext]_vars

\* C9: a call of integrate_trajectory_rk4 ends only by one of the
\* velocity-floor, max-range or drop guards firing, whatever the muzzle
\* velocity, elevation, mass, drag inputs, floor and maximum range are
C9_EndsByGuard ==
    pc \notin {"integrate_trajectory_rk4", "while"} =>
        /\ pc = "returned"
        /\ out.guard \in {"velocity", "range", "drop"}

\* the range of the sample before the one due next: the initial
\* last_output_range when there is none yet
PreviousSampleRange ==
    IF points = <<>> THEN -OutputInterval ELSE points[Len(points)].range

\* C10 as stated: consecutive samples, and the first sample and the muzzle,
\* are at least 100 m apart
C10_SamplesFromMuzzle ==
    pc \in {"while", "returned"} =>
        /\ points # <<>> => points[1].range >= OutputInterval
        /\ \A i \in 1..(Len(points) - 1) :
               points[i + 1].range - points[i].range >= OutputInterval

\* C10: the first sample is taken at the first integration step whose
\* range is >= 0 and every later sample at the first step at which at least
\* 100 m have been travelled since the sample before, as long as no guard
\* has ended the loop; sample ranges are strictly increasing and consecutive
\* samples are at least 100 m apart
C10_SamplesEvery100m ==
    pc \in {"while", "returned"} =>
        /\ points # <<>> => points[1].range >= 0
        /\ \A i \in 1..(Len(points) - 1) :
               /\ points[i + 1].range - points[i].range >= OutputInterval
               /\ points[i + 1].range > points[i].range
               /\ points[i + 1].t > points[i].t
        /\ (pc = "while" /\ loc.t > 0) =>
               loc.state[1] - PreviousSampleRange < OutputInterval

C10_Witness ==
    /\ pc = "returned"
    /\ Len(points) >= 3
    /\ points[1].range < OutputInterval
    /\ points[1].t = 1

\* the muzzle velocity components v0 * cos(elevation), v0 * sin(elevation)
MuzzleVelocity(p) ==
    [i \in 1..2 |-> p.v0 * (UnitsPerMetre \div 10000) * ElevationTable[p.elevation][i]]

\* C11: with zero drag (i7 = 0 or rho = 0) the horizontal velocity stays
\* v0 * cos(elevation), and after n steps of dt the horizontal position is
\* n * dt * v0 * cos(elevation) and the vertical velocity is
\* v0 * sin(elevation) - g * n * dt, each to within the rounding of one
\* unit of the last place per step
C11_ClosedFormWithoutDrag ==
    (pc \in {"while", "returned"} /\ (in.i7 = 0 \/ in.rho = 0)) =>
        /\ loc.state[3] = MuzzleVelocity(in)[1]
        /\ Abs(loc.state[1] - loc.t * (MuzzleVelocity(in)[1] \div StepsPerSecond))
             <= loc.t
        /\ Abs(loc.state[4] - MuzzleVelocity(in)[2]
               + WideMulDiv(Gravity, loc.t, StepsPerSecond))
             <= loc.t

C11_Witness ==
    /\ pc = "returned" /\ in.rho = 0 /\ in.i7 # 0
    /\ in.elevation = "steep" /\ in.v0 = 800
    /\ loc.t > 100 /\ loc.state[1] > 0 /\ loc.state[4] < MuzzleVelocity(in)[2]

\* C23: every sample in trajectory_points has velocity >= min_velocity_mps,
\* range < max_range_m and height >= -1000 m; the state at which a guard
\* ended the loop is not among the samples, and no sample is later than it
C23_SamplesWithinGuards ==
    pc \in {"while", "returned"} =>
        \A i \in 1..Len(points) :
            /\ points[i].velocity >= in.min_velocity * UnitsPerMetre
            /\ points[i].range < in.max_range * UnitsPerMetre
            /\ -points[i].drop >= DropLimit
            /\ points[i].t <= loc.t
            /\ pc = "returned" => points[i].t < loc.t

C23_Witness ==
    /\ pc = "returned"
    /\ out.guard = "range"
    /\ Len(points) >= 3
    /\ loc.state[1] - points[Len(points)].range < OutputInterval

\* ---------------------------------------------------------------------
\* interpolate_cd_g7 called on its own, for Mach -0.5 .. 3.5 in steps of 0.001
InterpolateInputs == [mach : -500..3500]

InterpolateInit ==
    /\ pc = "interpolate_cd_g7"
    /\ in \in InterpolateInputs
    /\ loc = [idx |-> 0]
    /\ points = <<>>
    /\ out = [kind |-> "none"]

\* the table index the call reads last (0: none beyond the clamps' own)
InterpolateIndex(mach) ==
    IF mach <= 0 \/ mach >= MACH_TABLE[Len(MACH_TABLE)] THEN 0
    ELSE Cardinality({i \in 1..Len(MACH_TABLE) : MACH_TABLE[i] < mach}) + 1

CallInterpolateCdG7 ==
    /\ pc = "interpolate_cd_g7"
    /\ pc' = "returned"
    /\ loc' = [idx |-> InterpolateIndex(in.mach)]
    /\ out' = IF InterpolateIndex(in.mach) \in 0..Len(CD_TABLE)
              THEN [kind |-> "returned", cd |-> InterpolateCdG7(in.mach)]
              ELSE Raised("IndexError")
    /\ UNCHANGED <<in, points>>

InterpolateNext == CallInterpolateCdG7

SpecInterpolate == InterpolateInit /\ [][InterpolateNext]_vars

\* C13: interpolate_cd_g7 returns for every Mach (never raises, never reads
\* outside the table); at or below the first table entry, negative values
\* included, it returns the first Cd, and at or above the last entry the last
C13_TotalAndClamped ==
    pc = "returned" =>
        /\ out.kind = "returned"
        /\ loc.idx \in 0..Len(MACH_TABLE)
        /\ in.mach <= MACH_TABLE[1] => out.cd = CD_TABLE[1]
        /\ in.mach >= MACH_TABLE[Len(MACH_TABLE)] => out.cd = CD_TABLE[Len(CD_TABLE)]

C13_Witness ==
    /\ pc = "returned" /\ in.mach > MACH_TABLE[Len(MACH_TABLE)]
    /\ out.kind = "returned" /\ out.cd = 1776

\* the entries i, i + 1 bracket the Mach number
Brackets(i, mach) == MACH_TABLE[i] <= mach /\ mach <= MACH_TABLE[i + 1]

\* C14: strictly inside the table range the result is the linear
\* interpolation between the two adjacent entries that bracket the Mach
\* number, it lies between their two Cd values, and at a tabulated Mach it is
\* the tabulated Cd; MACH_TABLE is strictly increasing and as long as CD_TABLE
C14_LinearBetweenBrackets ==
    /\ Len(MACH_TABLE) = Len(CD_TABLE)
    /\ \A i \in 1..(Len(MACH_TABLE) - 1) : MACH_TABLE[i] < MACH_TABLE[i + 1]
    /\ (/\ pc = "returned"
        /\ MACH_TABLE[1] < in.mach
        /\ in.mach < MACH_TABLE[Len(MACH_TABLE)]) =>
          /\ out.kind = "returned"
          /\ \E i \in 1..(Len(MACH_TABLE) - 1) : Brackets(i, in.mach)
          /\ \A i \in 1..(Len(MACH_TABLE) - 1) :
                Brackets(i, in.mach) =>
                  /\ out.cd = CD_TABLE[i]
                       + ((in.mach - MACH_TABLE[i]) * (CD_TABLE[i + 1] - CD_TABLE[i]))
                         \div (MACH_TABLE[i + 1] - MACH_TABLE[i])
                  /\ Min(CD_TABLE[i], CD_TABLE[i + 1]) <= out.cd
                  /\ out.cd <= Max(CD_TABLE[i], CD_TABLE[i + 1])
          /\ \A i \in 1..Len(MACH_TABLE) :
                in.mach = MACH_TABLE[i] => out.cd = CD_TABLE[i]

C14_Witness ==
    /\ pc = "returned" /\ in.mach = 1150
    /\ out.kind = "returned" /\ out.cd = 2636

\* ---------------------------------------------------------------------
\* TrajectoryCalculatorDialog.calculate: the loop over the trajectory samples
\* that tracks transonic entry and exit.  A sample is [range, mach]; a flag
\* is <<>> (None) or <<range_m>>.
MaxSamples == 4
TransonicMach == [entry |-> 1100, exit |-> 900]

\* sample lists with strictly increasing range and any Mach history
TransonicInputs ==
    UNION {[trajectory_points :
              {[k \in 1..n |-> [range |-> 100 * k - 99, mach |-> f[k]]] :
                  f \in [1..n -> {850, 1000, 1150}]}] : n \in 0..MaxSamples}

TransonicInit ==
    /\ pc = "calculate"
    /\ in \in TransonicInputs
    /\ loc = [i |-> 1, transonic_entry_range |-> <<>>, transonic_exit_range |-> <<>>]
    /\ points = <<>>
    /\ out = [kind |-> "none"]

\* one iteration of the for loop
TransonicStep ==
    /\ pc = "calculate"
    /\ loc.i <= Len(in.trajectory_points)
    /\ LET p == in.trajectory_points[loc.i]
       IN  loc' = [i |-> loc.i + 1,
                   transonic_entry_range |->
                       IF loc.transonic_entry_range = <<>> /\ p.mach <= TransonicMach.entry
                       THEN <<p.range>> ELSE loc.transonic_entry_range,
                   transonic_exit_range |->
                       IF loc.transonic_exit_range = <<>> /\ p.mach <= TransonicMach.exit
                       THEN <<p.range>> ELSE loc.transonic_exit_range]
    /\ UNCHANGED <<pc, in, points, out>>

\* the loop is exhausted: the summary reports the two flags
TransonicSummary ==
    /\ pc = "calculate"
    /\ loc.i > Len(in.trajectory_points)
    /\ pc' = "returned"
    /\ out' = [kind |-> "returned",
               transonic_entry_range |-> loc.transonic_entry_range,
               transonic_exit_range |-> loc.transonic_exit_range]
    /\ UNCHANGED <<in, loc, points>>

TransonicNext == TransonicStep \/ TransonicSummary

SpecTransonic == TransonicInit /\ [][TransonicNext]_vars

\* sample k is the first at which the Mach number crosses the threshold
\* descending
FirstDescendingCrossing(pts, k, threshold) ==
    /\ k > 1 /\ pts[k - 1].mach > threshold /\ pts[k].mach <= threshold
    /\ \A j \in 2..(k - 1) : ~(pts[j - 1].mach > threshold /\ pts[j].mach <= threshold)

\* the flag is that of the first descending crossing, or none without one
FlaggedAtCrossing(pts, flag, threshold) ==
    IF \E k \in 1..Len(pts) : FirstDescendingCrossing(pts, k, threshold)
    THEN \E k \in 1..Len(pts) : /\ FirstDescendingCrossing(pts, k, threshold)
                                /\ flag = <<pts[k].range>>
    ELSE flag = <<>>

\* C12: transonic entry (exit) is flagged at the first sample at which the
\* Mach number crosses 1.1 (0.9) descending, a trajectory that never was
\* above the threshold gets no flag for it, and entry is never flagged at a
\* later sample than exit
C12_FlaggedAtDescendingCrossing ==
    pc = "returned" =>
        /\ FlaggedAtCrossing(in.trajectory_points, out.transonic_entry_range,
                             TransonicMach.entry)
        /\ FlaggedAtCrossing(in.trajectory_points, out.transonic_exit_range,
                             TransonicMach.exit)
        /\ (out.transonic_entry_range # <<>> /\ out.transonic_exit_range # <<>>) =>
              out.transonic_entry_range[1] <= out.transonic_exit_range[1]

\* ---------------------------------------------------------------------
\* the band span with the spacing the band loop uses
SpanUsed == in.num_bands * in.band_length + (in.num_bands - 1) * loc.spacing

\* a valid call with bands whose requested span exceeds the body length,
\* past the scale-to-fit step
BandsOverBody ==
    /\ pc \in {"band", "body_end", "ogive", "tip", "done"}
    /\ ValidDesign(in)
    /\ 1 <= in.num_bands /\ in.num_bands <= NumBandsMax
    /\ TotalBandSpace(in) > BodyLength(in)

\* C15 as stated: whenever the requested band span exceeds the body length
\* the spacing is shrunk so that the bands fit,
\* num_bands * band_length + (num_bands - 1) * (spacing used) <= body length
C15_ShrunkBandsFit == BandsOverBody => SpanUsed <= BodyLength(in)

\* C15: whenever the requested band span exceeds the body length, the bands
\* fit with the spacing used exactly when there are at least two bands and
\* the bands with the smallest spacing of 0.1 mm fit; the spacing used is
\* never below 0.1 mm then and never above the requested spacing
C15_ShrunkBandsFitIfRoom ==
    BandsOverBody =>
        /\ (SpanUsed <= BodyLength(in)) <=>
              (/\ in.num_bands >= 2
               /\ in.num_bands * in.band_length + (in.num_bands - 1) * MinStep
                    <= BodyLength(in))
        /\ in.num_bands >= 2 => (MinStep <= loc.spacing /\ loc.spacing <= Max(MinStep, in.band_spacing))

C15_Witness ==
    /\ BandsOverBody /\ pc = "done"
    /\ in.num_bands = 6 /\ in.band_length = 90 /\ in.band_spacing = 120
    /\ loc.spacing < in.band_spacing
    /\ SpanUsed <= BodyLength(in)

\* ---------------------------------------------------------------------
\* C16: for every valid DesignParameters every emitted point has axial
\* position >= 0 and <= the overall length and radius >= 0
C16_PointsWithinBullet ==
    ValidDesign(in) =>
        \A k \in 1..Len(points) :
            /\ 0 <= points[k][1] /\ points[k][1] <= in.length
            /\ 0 <= points[k][2]

\* the same for the calls whose body floor of 0.1 mm still ends before the tip
PointsWithinBulletIfBodyFits ==
    (ValidDesign(in) /\ BaseEndZ(in) + MinStep <= in.length) =>
        \A k \in 1..Len(points) :
            /\ 0 <= points[k][1] /\ points[k][1] <= in.length
            /\ 0 <= points[k][2]

\* ---------------------------------------------------------------------
\* The three ogive radius functions called on their own at t = 0, 1/td, ..., 1
\* for base radius > tip radius >= 0 and length > 0; `points` collects the
\* radii returned so far.
OgiveInputs ==
    [ogive_type : {"Tangent", "Secant", "Elliptical"}, td : {20, 40, 50},
     base_radius : {1, 130, 134}, tip_radius : {0, 30, 129},
     length : {1, 402, 1000}]

OgiveInit ==
    /\ pc = "ogive_radius"
    /\ in \in OgiveInputs
    /\ in.base_radius > in.tip_radius
    /\ loc = [i |-> 0]
    /\ points = <<>>
    /\ out = [kind |-> "none"]

\* one call, at t = i / td
CallOgiveRadius ==
    /\ pc = "ogive_radius"
    /\ loc.i <= in.td
    /\ points' = Append(points, OgiveRadius(in.ogive_type, loc.i, in.td,
                                            in.base_radius, in.tip_radius, in.length))
    /\ loc' = [i |-> loc.i + 1]
    /\ pc' = IF loc.i = in.td THEN "returned" ELSE "ogive_radius"
    /\ UNCHANGED <<in, out>>

OgiveNext == CallOgiveRadius

SpecOgive == OgiveInit /\ [][OgiveNext]_vars

\* C17: each ogive radius function returns the base radius at t = 0 and the
\* tip radius at t = 1, never rises as t grows, and stays between the tip
\* radius and the base radius
C17_OgiveFromBaseToTip ==
    /\ Len(points) >= 1 => points[1] = in.base_radius
    /\ pc = "returned" => (Len(points) = in.td + 1 /\ Last(points) = in.tip_radius)
    /\ \A k \in 1..Len(points) :
          /\ in.tip_radius <= points[k] /\ points[k] <= in.base_radius
          /\ k > 1 => points[k] <= points[k - 1]

C17_Witness ==
    /\ pc = "returned" /\ in.ogive_type = "Elliptical" /\ in.td = 40
    /\ in.base_radius = 130 /\ in.tip_radius = 30
    /\ points[1] = 130 /\ points[21] < 130 /\ points[21] > 30 /\ points[41] = 30

----------------------------------------------------------------------------
(* BulletFeature.execute                                                   *)
(* Lengths in units of 0.001 mm, the ogive caliber ratio in tenths.  `in`  *)
(* is the property state the first execute starts from (with the proxy's   *)
(* _initializing flag), loc.obj the properties as stored now, loc.args the *)
(* local values of the running call, loc.written the properties each run   *)
(* has assigned, and `points` the argument lists of the calls of           *)
(* generate_bullet_profile_points so far.                                  *)

MaxRuns == 2

\* validate_bullet_parameters
ValidateBulletParameters(a) ==
    IF a.Diameter <= 0 THEN <<FALSE, "Diameter must be positive">>
    ELSE IF a.LandDiameter >= a.Diameter
    THEN <<FALSE, "Land diameter must be less than groove diameter">>
    ELSE IF a.Length <= 0 THEN <<FALSE, "Length must be positive">>
    ELSE IF a.NumBands < 0 \/ a.NumBands > 6
    THEN <<FALSE, "Number of bands must be between 0 and 6">>
    ELSE IF a.NumBands > 0 /\ a.BandLength <= 0
    THEN <<FALSE, "Band length must be positive">>
    ELSE IF a.NumBands > 0 /\ a.BandSpacing < 0
    THEN <<FALSE, "Band spacing cannot be negative">>
    ELSE IF a.OgiveCaliberRatio < 20 \/ a.OgiveCaliberRatio > 150
    THEN <<FALSE, "Ogive caliber ratio should be between 2 and 15">>
    ELSE IF a.MeplatDiameter >= a.LandDiameter
    THEN <<FALSE, "Meplat diameter must be less than land diameter">>
    ELSE IF a.BoatTailLength < 0
    THEN <<FALSE, "Boat tail length cannot be negative">>
    ELSE IF a.BoatTailLength * 10 > a.Length * 3
    THEN <<FALSE, "Boat tail length should not exceed 30% of total length">>
    ELSE IF /\ a.NumBands > 0
            /\ a.NumBands * a.BandLength
               + (IF a.NumBands > 1 THEN (a.NumBands - 1) * a.BandSpacing ELSE 0)
               > a.Length - (a.OgiveCaliberRatio * a.Diameter) \div 20 - a.BoatTailLength
    THEN <<FALSE, "Bands do not fit">>
    ELSE <<TRUE, "">>

\* App.Units.Quantity(f"{x:.2f} mm"): the values x can be stored as.  A value
\* half way between two hundredths goes up or down with its binary
\* representation.
TwoDecimals(x) ==
    IF x % 10 < 5 THEN {x - (x % 10)}
    ELSE IF x % 10 > 5 THEN {x - (x % 10) + 10}
    ELSE {x - 5, x + 5}

\* the generator is called only with parameters that passed validation
GenerateCallIfValid(is_valid, args) == IF is_valid THEN <<args>> ELSE <<>>

\* "Always continue": the generator call that follows validation
GenerateCall(is_valid, args) == <<args>>

ExecuteInputs ==
    [Length : {4000, 32000, 32060}, Diameter : {6700},
     LandDiameter : {100, 6500, 6510}, MeplatDiameter : {0, 1500, 7000},
     BoatTailLength : {0, 5000, 12000}, NumBands : {0, 4},
     BandLength : {2250}, BandSpacing : {3000}, OgiveCaliberRatio : {30, 70},
     initializing : BOOLEAN]

ExecuteInit ==
    /\ pc = "execute"
    /\ in \in ExecuteInputs
    /\ loc = [obj |-> in, run |-> 1, args |-> in, written |-> << {} >>]
    /\ points = <<>>
    /\ out = [kind |-> "none"]

\* the guards at the head of execute and the reading of the properties
ExecuteGuards ==
    /\ pc = "execute"
    /\ IF loc.obj.initializing
       THEN /\ pc' = "returned"
            /\ out' = [kind |-> "skipped", why |-> "still initializing"]
            /\ UNCHANGED loc
       ELSE IF loc.obj.Length < 5000
       THEN /\ pc' = "returned"
            /\ out' = [kind |-> "skipped", why |-> "Length too small"]
            /\ UNCHANGED loc
       ELSE /\ pc' = "auto_correct"
            /\ loc' = [loc EXCEPT !.args = loc.obj]
            /\ out' = [kind |-> "none"]
    /\ UNCHANGED <<in, points>>

\* fix meplat if too large, fix boat tail if too long
AutoCorrect ==
    /\ pc = "auto_correct"
    /\ LET fix_meplat == loc.args.MeplatDiameter >= loc.args.LandDiameter
           meplat     == IF fix_meplat THEN Max(100, loc.args.LandDiameter \div 2)
                         ELSE loc.args.MeplatDiameter
           fix_tail   == loc.args.BoatTailLength * 10 > loc.args.Length * 3
           tail       == IF fix_tail THEN (loc.args.Length * 3) \div 10
                         ELSE loc.args.BoatTailLength
       IN  \E meplat_stored \in (IF fix_meplat THEN TwoDecimals(meplat)
                                 ELSE {loc.obj.MeplatDiameter}) :
           \E tail_stored \in (IF fix_tail THEN TwoDecimals(tail)
                               ELSE {loc.obj.BoatTailLength}) :
              loc' = [loc EXCEPT
                        !.args.MeplatDiameter = meplat,
                        !.args.BoatTailLength = tail,
                        !.obj.MeplatDiameter = meplat_stored,
                        !.obj.BoatTailLength = tail_stored,
                        !.written[loc.run] =
                            (IF fix_meplat THEN {"MeplatDiameter"} ELSE {})
                            \cup (IF fix_tail THEN {"BoatTailLength"} ELSE {})]
    /\ pc' = "validate"
    /\ UNCHANGED <<in, points, out>>

\* validate_bullet_parameters on the corrected values; failures are logged
Validate ==
    /\ pc = "validate"
    /\ out' = [kind |-> "validated",
               is_valid |-> ValidateBulletParameters(loc.args)[1],
               error_msg |-> ValidateBulletParameters(loc.args)[2]]
    /\ pc' = "generate"
    /\ UNCHANGED <<in, loc, points>>

\* generate_bullet_profile_points(...) and the shape update
Generate ==
    /\ pc = "generate"
    /\ points' = points \o GenerateCall(out.is_valid, loc.args)
    /\ out' = [out EXCEPT !.kind = "returned"]
    /\ pc' = "returned"
    /\ UNCHANGED <<in, loc>>

\* the document recomputes the object again: execute runs on the stored state
Recompute ==
    /\ pc = "returned"
    /\ loc.run < MaxRuns
    /\ loc' = [loc EXCEPT !.run = loc.run + 1, !.args = loc.obj,
                          !.written = Append(loc.written, {})]
    /\ pc' = "execute"
    /\ UNCHANGED <<in, points, out>>

ExecuteNext ==
    \/ ExecuteGuards
    \/ AutoCorrect
    \/ Validate
    \/ Generate
    \/ Recompute

SpecExecute == ExecuteInit /\ [][ExecuteNext]_vars

\* meplat below land diameter and boat tail at most 0.3 x length
NotDegenerate(a) ==
    a.MeplatDiameter < a.LandDiameter /\ a.BoatTailLength * 10 <= a.Length * 3

\* C18: after the auto-correction step the values stored on the object and
\* the values passed on to validation and to the profile generator have
\* meplat diameter < land diameter and boat-tail length <= 0.3 x length, for
\* every starting property state with length >= 5 mm and land diameter > 0
C18_CorrectedValuesValid ==
    (/\ pc \in {"validate", "generate"}
     /\ in.Length >= 5000 /\ in.LandDiameter > 0) =>
        (NotDegenerate(loc.obj) /\ NotDegenerate(loc.args))

C20_SecondExecuteChangesNothing ==
    (pc = "returned" /\ loc.run = 2 /\ Len(points) = 2) =>
        (loc.written[2] = {} /\ points[2] = points[1])

----------------------------------------------------------------------------
(* MaterialDatabase                                                        *)
(* in.materials is self.materials, a function from the names in the table  *)
(* to [density, color]; density in 0.01 g/cm^3, colour components in 0.01. *)

MaterialNames == {"Gilding Metal (95/5)", "Pure Copper", "Lead Core", "Custom", "Unobtainium", ""}

\* _create_default_materials
DefaultMaterials ==
    [n \in {"Gilding Metal (95/5)", "Pure Copper", "Lead Core"} |->
        IF n = "Gilding Metal (95/5)" THEN [density |-> 886, color |-> <<80, 50, 20>>]
        ELSE IF n = "Pure Copper" THEN [density |-> 896, color |-> <<72, 45, 20>>]
        ELSE [density |-> 1134, color |-> <<40, 40, 40>>]]

\* a lookup that answers None for a name that is not in the table
GetDensityOrNone(materials, material_name) ==
    IF material_name \in DOMAIN materials THEN <<materials[material_name].density>>
    ELSE <<>>

\* get_density
GetDensity(materials, material_name) ==
    IF material_name \in DOMAIN materials THEN <<materials[material_name].density>>
    ELSE <<886>>

\* get_color
GetColor(materials, material_name) ==
    IF material_name \in DOMAIN materials THEN materials[material_name].color
    ELSE <<80, 50, 20>>

MaterialsInit ==
    /\ pc = "materials"
    /\ in = [materials |-> DefaultMaterials]
    /\ loc = [material_name |-> "", before |-> DefaultMaterials]
    /\ points = <<>>
    /\ out = [kind |-> "none"]

\* add_custom_material
AddCustomMaterial ==
    /\ pc = "materials"
    /\ \E name \in {"Pure Copper", "Custom"}, density \in {0, 1050, 1930},
          color \in {<<10, 10, 10>>, <<80, 50, 20>>} :
          in' = [materials |->
                   [n \in DOMAIN in.materials \cup {name} |->
                      IF n = name THEN [density |-> density, color |-> color]
                      ELSE in.materials[n]]]
    /\ UNCHANGED <<pc, loc, points, out>>

CallGetDensity ==
    /\ pc = "materials"
    /\ \E name \in MaterialNames :
          /\ loc' = [material_name |-> name, before |-> in.materials]
          /\ out' = [kind |-> "returned", fn |-> "get_density",
                     value |-> GetDensity(in.materials, name)]
    /\ pc' = "returned"
    /\ UNCHANGED <<in, points>>

CallGetColor ==
    /\ pc = "materials"
    /\ \E name \in MaterialNames :
          /\ loc' = [material_name |-> name, before |-> in.materials]
          /\ out' = [kind |-> "returned", fn |-> "get_color",
                     value |-> GetColor(in.materials, name)]
    /\ pc' = "returned"
    /\ UNCHANGED <<in, points>>

MaterialsNext == AddCustomMaterial \/ CallGetDensity \/ CallGetColor

SpecMaterials == MaterialsInit /\ [][MaterialsNext]_vars

\* C21: get_density returns 8.86 and get_color returns [0.8, 0.5, 0.2] for
\* every name that is not in the table and the stored density / color for
\* every name that is; neither lookup raises or modifies the table
C21_LookupTotalWithFallback ==
    pc = "returned" =>
        /\ out.kind = "returned"
        /\ in.materials = loc.before
        /\ out.value =
             IF loc.material_name \in DOMAIN in.materials
             THEN (IF out.fn = "get_density"
                   THEN <<in.materials[loc.material_name].density>>
                   ELSE in.materials[loc.material_name].color)
             ELSE (IF out.fn = "get_density" THEN <<886>> ELSE <<80, 50, 20>>)

C21_Witness ==
    /\ pc = "returned" /\ out.fn = "get_density"
    /\ loc.material_name = "Unobtainium" /\ out.value = <<886>>
    /\ "Custom" \in DOMAIN in.materials

\* ---------------------------------------------------------------------
\* the arguments execute passes to validate_bullet_parameters for the
\* parameters p it passes to generate_bullet_profile_points
ValidationArguments(p) ==
    [Diameter |-> p.diameter, LandDiameter |-> p.land_diameter, Length |-> p.length,
     NumBands |-> p.num_bands, BandLength |-> p.band_length,
     BandSpacing |-> p.band_spacing, OgiveCaliberRatio |-> p.ogive_ratio10,
     MeplatDiameter |-> p.meplat_diameter, BoatTailLength |-> p.boat_tail_length]

\* the generator has passed its band-fit test on parameters that
\* validation does not reject before its own band-fit test
BandFitTested ==
    /\ pc \in {"band", "body_end", "ogive", "tip", "done"}
    /\ ValidateBulletParameters(ValidationArguments(in))[2] \in {"", "Bands do not fit"}

\* C29: for the same parameters validation reports "Bands do not fit"
\* exactly when the generator finds the requested band span larger than the
\* body length it computes, for Flat and BoatTail bases alike
C29_ValidationAgreesWithGenerator ==
    BandFitTested =>
        (ValidateBulletParameters(ValidationArguments(in))[2] = "Bands do not fit"
           <=> (in.num_bands > 0 /\ TotalBandSpace(in) > BodyLength(in)))

\* with a boat tail at least as long as 0.1 mm short of the body the two
\* tests are the same comparison
C29_AgreeWithBoatTail ==
    (BandFitTested /\ (in.base_type = "BoatTail" \/ in.boat_tail_length = 0)
       /\ in.length - in.boat_tail_length - OgiveLength(in) > 0) =>
        (ValidateBulletParameters(ValidationArguments(in))[2] = "Bands do not fit"
           <=> (in.num_bands > 0 /\ TotalBandSpace(in) > BodyLength(in)))

----------------------------------------------------------------------------
(* The event chain of Objects/BulletFeature.py: a property write calls      *)
(* onChanged, onChanged calls obj.recompute() for a geometry property, and  *)
(* recompute calls execute, whose auto-correction writes properties again.  *)
(* The calls nest: loc.stack holds the execute calls begun or due, the      *)
(* running one last.  Lengths in 0.001 mm, density in 0.01 g/cm^3.          *)

\* the nesting of execute calls at which the interpreter raises RecursionError
RecursionLimit == 6

\* geometry_props of onChanged
GeometryProps ==
    {"Diameter", "LandDiameter", "Length", "OgiveType", "OgiveCaliberRatio",
     "MeplatDiameter", "NumBands", "BandLength", "BandSpacing", "BandDiameter",
     "BaseType", "BoatTailLength", "BoatTailAngle"}

\* the values properties are set to
PropertyValues ==
    [Diameter |-> {6700}, LandDiameter |-> {100, 6500},
     Length |-> {4000, 32000, 32060}, MeplatDiameter |-> {1500, 7000},
     BoatTailLength |-> {5000, 12000}, Material |-> {"Pure Copper"}]

\* a handler that never takes itself to be initializing
NeverInitializing(l) == FALSE

\* hasattr(self, '_initializing') and self._initializing
IsInitializing(l) == l.initializing

\* an execute call that has not begun
ExecuteCall == [pc |-> "execute", length |-> 0, land |-> 0, meplat |-> 0, boat_tail |-> 0]

\* the state after BulletFeature(obj): the properties are added, none is set
EventsInit ==
    /\ pc = "makeBulletFeature"
    /\ in = [name |-> "Bullet"]
    /\ loc = [obj |-> [Diameter |-> 0, LandDiameter |-> 0, Length |-> 0,
                       MeplatDiameter |-> 0, BoatTailLength |-> 0, BandDiameter |-> 0,
                       Material |-> "", Density |-> 0],
              initializing |-> TRUE, stack |-> <<>>, written |-> {},
              recomputes |-> 0, runs |-> 0, recursion_error |-> FALSE]
    /\ points = <<>>
    /\ out = [kind |-> "none"]

\* where control is when no execute call is left
Quiescent(l) == IF l.initializing THEN "makeBulletFeature" ELSE "idle"

\* a property is set, by makeBulletFeature or by the user, and onChanged
\* runs for it: Density follows Material, BandDiameter follows Diameter, and
\* a geometry property has the object recomputed
SetProperty ==
    /\ pc \in {"makeBulletFeature", "idle"}
    /\ \E prop \in DOMAIN PropertyValues : \E v \in PropertyValues[prop] :
         LET set == [loc.obj EXCEPT ![prop] = v]
         IN  IF IsInitializing(loc)
             THEN /\ loc' = [loc EXCEPT !.obj = set]
                  /\ pc' = pc
             ELSE LET obj == IF prop = "Material"
                             THEN [set EXCEPT !.Density = GetDensity(DefaultMaterials, v)[1]]
                             ELSE IF prop = "Diameter"
                             THEN [set EXCEPT !.BandDiameter = v]
                             ELSE set
                      written == IF prop = "Material" THEN {"Density"}
                                 ELSE IF prop = "Diameter" THEN {"BandDiameter"}
                                 ELSE {}
                      due == IF prop = "Length" /\ v < 5000 THEN 0
                             ELSE IF prop = "Diameter" THEN 2
                             ELSE IF prop \in GeometryProps THEN 1
                             ELSE 0
                  IN  /\ loc' = [loc EXCEPT !.obj = obj, !.written = written,
                                            !.stack = [i \in 1..due |-> ExecuteCall],
                                            !.recomputes = due, !.runs = 0,
                                            !.recursion_error = FALSE]
                      /\ pc' = IF due > 0 THEN "chain" ELSE pc
    /\ UNCHANGED <<in, points, out>>

\* the document recomputes the object
DocumentRecompute ==
    /\ pc \in {"makeBulletFeature", "idle"}
    /\ loc' = [loc EXCEPT !.stack = <<ExecuteCall>>, !.written = {},
                          !.recomputes = 0, !.runs = 0, !.recursion_error = FALSE]
    /\ pc' = "chain"
    /\ UNCHANGED <<in, points, out>>

\* the running execute call returns
Return(l) == [l EXCEPT !.stack = SubSeq(l.stack, 1, Len(l.stack) - 1)]

\* execute wrote a property: onChanged has the object recomputed, which
\* calls execute again while the running call (now at next) waits; beyond
\* the recursion limit the write raises and the running call ends in its
\* except branch
WriteProperty(l, prop, next) ==
    IF Len(l.stack) >= RecursionLimit
    THEN [Return(l) EXCEPT !.written = l.written \cup {prop}, !.recursion_error = TRUE]
    ELSE [l EXCEPT !.written = l.written \cup {prop},
                   !.recomputes = Min(l.recomputes + 1, 2 * RecursionLimit),
                   !.stack = Append([l.stack EXCEPT ![Len(l.stack)] = next], ExecuteCall)]

\* lines 270-366: the guards and the reading of the properties
ExecuteBegin ==
    /\ pc = "chain"
    /\ loc.stack # <<>>
    /\ Last(loc.stack).pc = "execute"
    /\ IF IsInitializing(loc) \/ loc.obj.Length < 5000
       THEN loc' = Return(loc)
       ELSE loc' = [loc EXCEPT !.stack[Len(loc.stack)] =
                        [pc |-> "meplat", length |-> loc.obj.Length,
                         land |-> loc.obj.LandDiameter, meplat |-> loc.obj.MeplatDiameter,
                         boat_tail |-> loc.obj.BoatTailLength]]
    /\ pc' = IF loc'.stack = <<>> THEN Quiescent(loc) ELSE "chain"
    /\ UNCHANGED <<in, points, out>>

\* lines 372-378: fix meplat if too large
CorrectMeplat ==
    /\ pc = "chain"
    /\ loc.stack # <<>>
    /\ Last(loc.stack).pc = "meplat"
    /\ LET f == Last(loc.stack)
           meplat == Max(100, f.land \div 2)
       IN  IF f.meplat >= f.land
           THEN \E stored \in TwoDecimals(meplat) :
                  loc' = WriteProperty([loc EXCEPT !.obj.MeplatDiameter = stored],
                                       "MeplatDiameter",
                                       [f EXCEPT !.pc = "boat_tail", !.meplat = meplat])
           ELSE loc' = [loc EXCEPT !.stack[Len(loc.stack)].pc = "boat_tail"]
    /\ pc' = IF loc'.stack = <<>> THEN Quiescent(loc) ELSE "chain"
    /\ UNCHANGED <<in, points, out>>

\* lines 380-386: fix boat tail if too long
CorrectBoatTail ==
    /\ pc = "chain"
    /\ loc.stack # <<>>
    /\ Last(loc.stack).pc = "boat_tail"
    /\ LET f == Last(loc.stack)
           max_boat_tail == (f.length * 3) \div 10
       IN  IF f.boat_tail * 10 > f.length * 3
           THEN \E stored \in TwoDecimals(max_boat_tail) :
                  loc' = WriteProperty([loc EXCEPT !.obj.BoatTailLength = stored],
                                       "BoatTailLength",
                                       [f EXCEPT !.pc = "generate", !.boat_tail = max_boat_tail])
           ELSE loc' = [loc EXCEPT !.stack[Len(loc.stack)].pc = "generate"]
    /\ pc' = IF loc'.stack = <<>> THEN Quiescent(loc) ELSE "chain"
    /\ UNCHANGED <<in, points, out>>

\* lines 406-543: validation, profile, solid, obj.Shape = bullet_solid
GenerateShape ==
    /\ pc = "chain"
    /\ loc.stack # <<>>
    /\ Last(loc.stack).pc = "generate"
    /\ loc' = [Return(loc) EXCEPT !.written = loc.written \cup {"Shape"},
                                  !.runs = Min(loc.runs + 1, 2 * RecursionLimit)]
    /\ pc' = IF loc'.stack = <<>> THEN Quiescent(loc) ELSE "chain"
    /\ UNCHANGED <<in, points, out>>

\* lines 1062-1083: makeBulletFeature ends, by its try block running to the
\* end or by its except branch, and returns obj
MakeBulletFeatureReturns ==
    /\ pc = "makeBulletFeature"
    /\ \E path \in {"try", "except"} :
         out' = [kind |-> "returned", path |-> path]
    /\ loc' = [loc EXCEPT !.initializing = FALSE]
    /\ pc' = "idle"
    /\ UNCHANGED <<in, points>>

EventsNext ==
    \/ SetProperty
    \/ DocumentRecompute
    \/ ExecuteBegin
    \/ CorrectMeplat
    \/ CorrectBoatTail
    \/ GenerateShape
    \/ MakeBulletFeatureReturns

SpecEvents == EventsInit /\ [][EventsNext]_vars

\* C25: while _initializing is True execute and onChanged write no property
\* and no Shape and trigger no recompute, whichever properties are set and
\* in whatever order; the flag is cleared on both paths by which
\* makeBulletFeature returns, so the object it returns is initialized
C25_InitializingHasNoEffect ==
    /\ loc.initializing =>
          /\ loc.written = {} /\ loc.recomputes = 0 /\ loc.runs = 0
          /\ pc \in {"makeBulletFeature", "chain"}
          /\ out.kind = "none"
    /\ out.kind = "returned" => ~loc.initializing

\* an object returned by the except branch has reacted to a later edit
C25_Witness ==
    /\ pc = "idle" /\ out.kind = "returned" /\ out.path = "except"
    /\ ~loc.initializing
    /\ loc.written = {"Shape"} /\ loc.runs = 1 /\ loc.recomputes = 1

\* a bullet returned by makeBulletFeature all of whose dimensions are set
InitializedBullet ==
    /\ ~loc.initializing
    /\ 0 < loc.obj.LandDiameter /\ loc.obj.LandDiameter < loc.obj.Diameter
    /\ 0 < loc.obj.Length /\ 0 < loc.obj.MeplatDiameter /\ 0 < loc.obj.BoatTailLength

\* C28: the chain of execute runs started by a single edit of an initialized
\* bullet ends by itself: the writes of execute's auto-correction do not
\* keep re-triggering execute until the interpreter's recursion limit stops
\* them
C28_ChainQuiesces == InitializedBullet => ~loc.recursion_error

\* when the corrected values have at most two decimals and stay below
\* their limits, a chain nests at most four execute calls and ends after at
\* most five complete runs
C28_QuiescesOnExactValues ==
    (loc.obj.Length = 32000 /\ loc.obj.LandDiameter = 6500) =>
        (~loc.recursion_error /\ Len(loc.stack) <= 4 /\ loc.runs <= 5)

----------------------------------------------------------------------------
(* The task panel of Gui/BulletTaskPanel.py on a bullet object.  Lengths in *)
(* 1/40 mm, weights in grains, as in the dimension solver.                  *)

\* calculate_bullet_dimensions_from_weight as a function: the loop of
\* SolverIterate from the first boat tail length on
CalculateBulletDimensionsFromWeight(p) ==
    LET RECURSIVE Loop(_, _)
        Loop(bt, iteration) ==
            IF iteration >= p.max_iterations
            THEN [kind |-> "returned", is_valid |-> FALSE, total_length |-> 0,
                  boat_tail_length |-> bt]
            ELSE LET t == SolverTry(p, bt)
                 IN  IF t.outcome = "raise" THEN Raised("ZeroDivisionError")
                     ELSE IF t.outcome = "fit"
                     THEN IF p.groove_diameter = 0 \/ p.target_weight = 0
                          THEN Raised("ZeroDivisionError")
                          ELSE SolverValidResult(p, bt, t.gap_len)
                     ELSE Loop(ShrinkBoatTail(bt, t.outcome), iteration + 1)
    IN  IF p.density100 = 0 THEN Raised("ZeroDivisionError")
        ELSE Loop(SMulDiv(p.groove_diameter, 7, 10), 0)

\* the solver arguments _recalculate_dimensions_from_weight reads from the
\* object
SolverArguments(obj, target_weight) ==
    [target_weight |-> target_weight, groove_diameter |-> 268,
     land_diameter |-> obj.LandDiameter, density100 |-> 896, num_bands |-> 4,
     band_length |-> 90, band_spacing |-> 120, ogive_ratio10 |-> 30,
     ogive_type |-> "Tangent", boat_tail_angle |-> 9, meplat_diameter |-> 60,
     land_riding |-> TRUE, max_iterations |-> DefaultMaxIterations]

\* _recalculate_dimensions_from_weight: the call of the solver by keywords,
\* and the update of Length, BoatTailLength and their spin boxes when the
\* result reads as valid; an exception ends it with nothing changed
RecalculateDimensionsFromWeight(l, target_weight) ==
    LET \* the parameters of calculate_bullet_dimensions_from_weight
        parameters ==
            {"target_weight_grains", "groove_diameter_mm", "land_diameter_mm",
             "material_density_g_per_cm3", "num_bands", "band_length_mm",
             "band_spacing_mm", "ogive_caliber_ratio", "ogive_type",
             "boat_tail_angle_deg", "meplat_diameter_mm", "land_riding",
             "max_iterations"}
        \* the keywords of the call
        keywords ==
            {"target_weight_grains", "groove_diameter_mm", "land_diameter_mm",
             "density_g_per_cm3", "num_bands", "band_length_mm", "band_spacing_mm",
             "ogive_caliber_ratio", "ogive_type", "boat_tail_angle_deg",
             "meplat_diameter_mm", "land_riding"}
        \* result.get('valid', False) on a dictionary whose key is 'is_valid'
        valid(result) == IF "valid" \in {"is_valid"} THEN result.is_valid ELSE FALSE
        update(result) ==
            IF result.kind = "raised" THEN l
            ELSE IF valid(result)
            THEN [l EXCEPT !.obj.Length = result.total_length,
                           !.obj.BoatTailLength = result.boat_tail_length,
                           !.panel.length_spin = result.total_length,
                           !.panel.boat_tail_length_spin = result.boat_tail_length,
                           !.written = l.written \cup {"Length", "BoatTailLength"}]
            ELSE l
    IN  update(IF keywords \subseteq parameters
               THEN CalculateBulletDimensionsFromWeight(SolverArguments(l.obj, target_weight))
               ELSE Raised("TypeError"))

\* apply
Apply(l) ==
    IF l.panel.initial_load THEN l
    ELSE LET l1 == [l EXCEPT !.obj.LandDiameter = l.panel.land_diameter_spin]
             new_weight == l.panel.weight_spin
             changed == new_weight # l.obj.Weight
             finish(l2) ==
                 [l2 EXCEPT !.obj.Weight = new_weight,
                            !.obj.BoatTailLength = l2.panel.boat_tail_length_spin,
                            !.written = l2.written \cup
                                {"LandDiameter", "Weight", "BoatTailLength"} \cup
                                (IF changed THEN {} ELSE {"Length"}),
                            !.applied = [weight_changed |-> changed,
                                         parameters |-> <<SolverArguments(l1.obj, new_weight)>>]]
         IN  finish(IF changed THEN RecalculateDimensionsFromWeight(l1, new_weight)
                    ELSE [l1 EXCEPT !.obj.Length = l.panel.length_spin])

\* _load_values: the spin boxes take the object's values; a land diameter
\* or a weight out of range is shown, and written, as its default
LoadValues(l) ==
    LET land_wrong   == l.obj.LandDiameter < 40 \/ l.obj.LandDiameter > 400
        weight_wrong == l.obj.Weight < 10 \/ l.obj.Weight > 1000
        fix_land     == land_wrong /\ ~l.panel.initial_load
    IN  [l EXCEPT !.obj.LandDiameter = IF fix_land THEN 260 ELSE @,
                  !.obj.Weight = IF weight_wrong THEN 140 ELSE @,
                  !.written = @ \cup (IF fix_land THEN {"LandDiameter"} ELSE {})
                                \cup (IF weight_wrong THEN {"Weight"} ELSE {}),
                  !.panel.land_diameter_spin = IF land_wrong THEN 260 ELSE l.obj.LandDiameter,
                  !.panel.weight_spin = IF weight_wrong THEN 140 ELSE l.obj.Weight,
                  !.panel.length_spin = l.obj.Length,
                  !.panel.boat_tail_length_spin = l.obj.BoatTailLength]

\* the property states of the object the panel is opened on
PanelInputs ==
    [Weight : {5, 140}, Length : {1280, 1600}, BoatTailLength : {200, 400},
     LandDiameter : {4, 260}]

\* the values the user sets the spin boxes to
SpinValues ==
    [weight_spin |-> {120, 140, 160}, length_spin |-> {1280, 2000},
     boat_tail_length_spin |-> {200, 300}]

PanelInit ==
    /\ pc = "Gui.Control.showDialog"
    /\ in \in PanelInputs
    /\ loc = [obj |-> in,
              panel |-> [initial_load |-> TRUE, preview |-> TRUE, weight_spin |-> 0,
                         length_spin |-> 0, boat_tail_length_spin |-> 0,
                         land_diameter_spin |-> 0],
              written |-> {},
              applied |-> [weight_changed |-> FALSE, parameters |-> <<>>]]
    /\ points = <<>>
    /\ out = [kind |-> "none"]

\* __init__: _initial_load = True, then _load_values
OpenPanel ==
    /\ pc = "Gui.Control.showDialog"
    /\ \E preview \in BOOLEAN :
         loc' = LoadValues([loc EXCEPT !.panel.preview = preview])
    /\ pc' = "panel"
    /\ UNCHANGED <<in, points, out>>

\* _mark_initial_load_complete, 100 ms after construction
MarkInitialLoadComplete ==
    /\ pc = "panel"
    /\ loc.panel.initial_load
    /\ loc' = [loc EXCEPT !.panel.initial_load = FALSE]
    /\ UNCHANGED <<pc, in, points, out>>

\* the user changes a spin box: _on_parameter_changed or _on_weight_changed
\* applies the panel when live preview is on
OnParameterChanged ==
    /\ pc = "panel"
    /\ \E w \in DOMAIN SpinValues : \E v \in SpinValues[w] :
         LET l == [loc EXCEPT !.panel[w] = v]
         IN  loc' = IF loc.panel.initial_load \/ ~loc.panel.preview
                    THEN [l EXCEPT !.applied = [weight_changed |-> FALSE, parameters |-> <<>>]]
                    ELSE Apply(l)
    /\ UNCHANGED <<pc, in, points, out>>

\* accept: the OK button
Accept ==
    /\ pc = "panel"
    /\ loc' = Apply([loc EXCEPT !.panel.initial_load = FALSE])
    /\ pc' = "closed"
    /\ UNCHANGED <<in, points, out>>

PanelNext ==
    \/ OpenPanel
    \/ MarkInitialLoadComplete
    \/ OnParameterChanged
    \/ Accept

SpecPanel == PanelInit /\ [][PanelNext]_vars

\* the panel has just been applied with a target weight that differs from
\* the object's Weight, and the solver finds valid dimensions for it
WeightApplied ==
    /\ pc \in {"panel", "closed"}
    /\ loc.applied.weight_changed
    /\ CalculateBulletDimensionsFromWeight(loc.applied.parameters[1]).kind = "returned"
    /\ CalculateBulletDimensionsFromWeight(loc.applied.parameters[1]).is_valid

\* C24: when apply finds the target weight changed and the solver finds a
\* valid solution for the object's parameters, the object's Length is the
\* solver's total_length_mm and its BoatTailLength the solver's
\* boat_tail_length_mm
C24_RedimensionedToWeight ==
    WeightApplied =>
        /\ loc.obj.Length =
             CalculateBulletDimensionsFromWeight(loc.applied.parameters[1]).total_length
        /\ loc.obj.BoatTailLength =
             CalculateBulletDimensionsFromWeight(loc.applied.parameters[1]).boat_tail_length

\* what apply does with a changed weight: Length keeps its value and
\* BoatTailLength takes the spin box's
C24_LengthKept ==
    WeightApplied =>
        /\ "Length" \notin loc.written \/ loc.obj.Length = loc.panel.length_spin
        /\ loc.obj.BoatTailLength = loc.panel.boat_tail_length_spin
        /\ loc.obj.Weight = loc.panel.weight_spin

\* C26: while _initial_load is True the panel writes no property of the
\* object: the object is as it was when the panel was constructed, for
\* every initial property state
C26_InitialLoadWritesNothing ==
    (pc = "panel" /\ loc.panel.initial_load) =>
        (loc.written = {} /\ loc.obj = in)

\* during the initial load only an out-of-range Weight is written
C26_OnlyWeightWritten ==
    (pc = "panel" /\ loc.panel.initial_load) =>
        /\ loc.written \subseteq {"Weight"}
        /\ loc.written = {} <=> (in.Weight >= 10 /\ in.Weight <= 1000)
        /\ loc.obj = [in EXCEPT !.Weight = IF loc.written = {} THEN @ ELSE 140]

\* ---------------------------------------------------------------------
\* Ballistic calculator dialog: the units combo box
\* (Commands/BallisticCalculator.py). Velocity and temperature are in
\* tenths of the displayed unit, pressure in hundredths: the decimals of
\* the three spin boxes.
\* ---------------------------------------------------------------------

\* 0.3048 m/s per fps, times 10000
FPS_TO_MPS == 3048

\* 33.8639 hPa per inHg, times 10000
INHG_TO_HPA == 338639

MaxToggles == 2

\* n / d rounded to the nearest integer, halves away from zero
RoundQ(n, d) ==
    IF n >= 0 THEN (n + d \div 2) \div d ELSE -((d \div 2 - n) \div d)

\* _apply_velocity_units, _apply_temp_units, _apply_pressure_units: the
\* range each spin box gets in a unit system
SpinRanges(metric) ==
    IF metric
    THEN [velocity |-> <<1000, 15000>>, temp |-> <<-400, 500>>,
          pressure |-> <<80000, 120000>>]
    ELSE [velocity |-> <<3000, 50000>>, temp |-> <<-400, 1200>>,
          pressure |-> <<2300, 3500>>]

\* the values the spin boxes are given when the dialog is created
SpinDefaults(metric) ==
    IF metric
    THEN [velocity |-> 8530, temp |-> 150, pressure |-> 101325]
    ELSE [velocity |-> 28000, temp |-> 590, pressure |-> 2992]

\* QDoubleSpinBox.setValue of n / d: rounded to the box's decimals and
\* bounded by the box's range
SetValue(range, n, d) == Min(Max(RoundQ(n, d), range[1]), range[2])

\* _on_units_changed, the conversion of the three values to the new units
\* and their setValue into the re-ranged boxes
ConvertSpins(l, new_metric) ==
    LET r == SpinRanges(new_metric) IN
    IF new_metric
    THEN [l EXCEPT
            !.metric = TRUE,
            !.velocity = SetValue(r.velocity, l.velocity * FPS_TO_MPS, 10000),
            !.temp = SetValue(r.temp, (l.temp - 320) * 5, 9),
            !.pressure = SetValue(r.pressure, l.pressure * INHG_TO_HPA, 10000)]
    ELSE [l EXCEPT
            !.metric = FALSE,
            !.velocity = SetValue(r.velocity, l.velocity * 10000, FPS_TO_MPS),
            !.temp = SetValue(r.temp, l.temp * 9 + 1600, 5),
            !.pressure = SetValue(r.pressure, l.pressure * 10000, INHG_TO_HPA)]

\* values a user enters in a unit system: the ends of each range, the
\* defaults and values inside both systems' ranges
SpinEntries(metric) ==
    IF metric
    THEN [velocity : {1000, 8530, 15000}, temp : {-400, 150, 400, 500},
          pressure : {80000, 101325, 118000, 120000}]
    ELSE [velocity : {3000, 28000, 49000, 50000}, temp : {-400, 590, 1200},
          pressure : {2300, 2992, 3500}]

\* BallisticCalculatorDialog.__init__: units from the preferences, the
\* boxes at their defaults
UnitsInit ==
    /\ pc = "dialog"
    /\ \E metric \in BOOLEAN :
         /\ loc = [metric |-> metric,
                   velocity |-> SpinDefaults(metric).velocity,
                   temp |-> SpinDefaults(metric).temp,
                   pressure |-> SpinDefaults(metric).pressure,
                   toggles |-> 0]
         /\ in = [metric |-> metric,
                  velocity |-> SpinDefaults(metric).velocity,
                  temp |-> SpinDefaults(metric).temp,
                  pressure |-> SpinDefaults(metric).pressure]
    /\ points = <<>>
    /\ out = <<>>

\* the user enters velocity, temperature and pressure in the current units
EditSpins ==
    /\ pc = "dialog"
    /\ \E e \in SpinEntries(loc.metric) :
         /\ loc' = [loc EXCEPT !.velocity = e.velocity, !.temp = e.temp,
                               !.pressure = e.pressure, !.toggles = 0]
         /\ in' = [metric |-> loc.metric, velocity |-> e.velocity,
                   temp |-> e.temp, pressure |-> e.pressure]
    /\ UNCHANGED <<pc, points, out>>

\* _on_units_changed(index)
OnUnitsChanged ==
    /\ pc = "dialog"
    /\ loc.toggles < MaxToggles
    /\ \E index \in {0, 1} :
         LET new_metric == (index = 0) IN
         IF new_metric = loc.metric
         THEN loc' = loc
         ELSE loc' = [ConvertSpins(loc, new_metric) EXCEPT !.toggles = @ + 1]
    /\ UNCHANGED <<pc, in, points, out>>

UnitsNext ==
    \/ EditSpins
    \/ OnUnitsChanged

SpecUnits == UnitsInit /\ [][UnitsNext]_vars

\* one display step of the coarser of the two boxes of a quantity, in the
\* units the round trip started in
DisplayRounding(metric) ==
    IF metric
    THEN [velocity |-> 1, temp |-> 1, pressure |-> 34]
    ELSE [velocity |-> 4, temp |-> 2, pressure |-> 1]

\* the units have been toggled there and back since the values were entered
RoundTripDone == pc = "dialog" /\ loc.toggles = 2 /\ loc.metric = in.metric

\* the values as they were entered, up to the display rounding
ValuesPreserved ==
    /\ Abs(loc.velocity - in.velocity) <= DisplayRounding(in.metric).velocity
    /\ Abs(loc.temp - in.temp) <= DisplayRounding(in.metric).temp
    /\ Abs(loc.pressure - in.pressure) <= DisplayRounding(in.metric).pressure

\* C30: toggling the units there and back preserves velocity, temperature
\* and pressure, for every value of the starting unit's ranges, up to the
\* spin boxes' display rounding
C30_RoundTripPreserves == RoundTripDone => ValuesPreserved

\* the entered values, converted, lie inside the other unit system's ranges
InsideOtherRanges ==
    LET other == ConvertSpins(in, ~in.metric)
        exact == [velocity |-> IF in.metric THEN RoundQ(in.velocity * 10000, FPS_TO_MPS)
                               ELSE RoundQ(in.velocity * FPS_TO_MPS, 10000),
                  temp |-> IF in.metric THEN RoundQ(in.temp * 9 + 1600, 5)
                           ELSE RoundQ((in.temp - 320) * 5, 9),
                  pressure |-> IF in.metric THEN RoundQ(in.pressure * 10000, INHG_TO_HPA)
                               ELSE RoundQ(in.pressure * INHG_TO_HPA, 10000)]
    IN  /\ other.velocity = exact.velocity
        /\ other.temp = exact.temp
        /\ other.pressure = exact.pressure

\* the round trip preserves the values that the other unit system's
\* ranges admit
C30_PreservedInsideBothRanges ==
    (RoundTripDone /\ InsideOtherRanges) => ValuesPreserved

====
